---- MODULE Spec2Model ----
(***************************************************************************)
(* Model of contracts/Escrow.sol: the escrow ledger contract, its fund     *)
(* custody and its status machine.                                         *)
(*                                                                         *)
(* Granularity.  The EVM runs a transaction to completion, but every       *)
(* external call the contract makes (a native value transfer, a token      *)
(* transfer) hands control to foreign code, which may call back into the   *)
(* contract before it returns.  A step of the model is therefore the code  *)
(* of one function between two external calls.  A function that makes no   *)
(* external call is one step.  A pending external call is a frame on       *)
(* `stack`; the frame keeps the state at the entry of the function, which  *)
(* is what a revert restores.                                              *)
(*                                                                         *)
(* resolveDispute calls refundToClient / releaseToProvider by name.  The   *)
(* model gives that call the meaning the tests of the repository expect:   *)
(* an internal call that keeps msg.sender and runs the callee's modifiers. *)
(*                                                                         *)
(* The second part models the backend that mirrors the contract:           *)
(* EventListenerService, which polls the contract's event log into the     *)
(* `escrows` table, the notification store, and DisputeService.  A step of *)
(* a poll cycle is the code between two awaits that touch shared state     *)
(* (the table, the cursor, the chain).                                     *)
(*                                                                         *)
(* The last part models AuthService: the nonces it hands out, the          *)
(* signatures the wallets make over the messages that carry them, and the  *)
(* calls of verifySignature that return tokens.                            *)
(***************************************************************************)
EXTENDS Integers, Sequences, FiniteSets, TLC

\* ------------------------------------------------------------------ bounds

MaxEscrows == 1
MaxDepth == 2
MaxCreates == 3
MaxCycles == 2
MaxBlock == 4
MaxDisputes == 2
InitBalance == 2 * 100

\* ------------------------------------------------------- program constants

MAX_FEE == 1000
FEE_DENOMINATOR == 10000
InitialDefaultFee == 250
\* uint256 is scaled down to 17 bits: checked arithmetic reverts above it.
MaxUint == 2^17 - 1

ZERO == "0x0"
ESCROW == "this"
OWNER == "owner"
TOKEN == "erc20"

Addr == {"owner", "c", "p", "a"}
Holders == Addr \cup {ESCROW}
Assets == {ZERO, TOKEN}
Ids == 0 .. (MaxEscrows - 1)
NoId == 0 - 1

EscrowStatus == {"CREATED", "FUNDED", "DISPUTED", "RELEASED", "REFUNDED", "CANCELLED"}

\* The default value of a storage slot of mapping `escrows`.  Fields createdAt,
\* deadline and description are written by createEscrow and read by no function
\* of the contract; the model does not keep them.
EscrowData == [client |-> ZERO, provider |-> ZERO, arbitrator |-> ZERO, token |-> ZERO,
               amount |-> 0, fee |-> 0, status |-> "CREATED"]

\* ----------------------------------------------------------------- inputs

Values == {0, 1, 100, 200}
\* block.timestamp of the blocks that carry a createEscrow.
Timestamps == {5}
CreateInputs ==
    { [sender |-> "c", provider |-> "p", arbitrator |-> "a",  token |-> ZERO,  amount |-> 100,
       deadline |-> 0],
      [sender |-> "c", provider |-> "p", arbitrator |-> ZERO, token |-> TOKEN, amount |-> 100,
       deadline |-> 0],
      [sender |-> "c", provider |-> "p", arbitrator |-> "p",  token |-> ZERO,  amount |-> 1,
       deadline |-> 6],
      [sender |-> "c", provider |-> "p", arbitrator |-> "a",  token |-> ZERO,  amount |-> 200,
       deadline |-> 0],
      [sender |-> "c", provider |-> ZERO, arbitrator |-> "a", token |-> ZERO,  amount |-> 100,
       deadline |-> 0],
      [sender |-> "c", provider |-> "c", arbitrator |-> "a",  token |-> ZERO,  amount |-> 100,
       deadline |-> 0],
      [sender |-> "c", provider |-> "p", arbitrator |-> "a",  token |-> ZERO,  amount |-> 0,
       deadline |-> 0],
      [sender |-> "c", provider |-> "p", arbitrator |-> "a",  token |-> ZERO,  amount |-> 100,
       deadline |-> 5],
      [sender |-> "c", provider |-> "p", arbitrator |-> "a",  token |-> ZERO,  amount |-> 100,
       deadline |-> 4] }
NewFees == {1000, 1001}
ArbitratorInputs == {ZERO, "a"}
FeeCollectorInputs == {ZERO, "a"}
WithdrawAmounts == {100}
Approvers == {"c"}
AdminSenders == {OWNER, "a"}
ApproveAmounts == {0, MaxUint}

\* ------------------------------------------------------------------ state

VARIABLES
    escrows,                \* mapping(uint256 => EscrowData)
    escrowIdCounter,        \* _escrowIdCounter
    authorizedArbitrators,  \* mapping(address => bool)
    defaultFee,
    feeCollector,
    collectedFees,          \* mapping(address => uint256), token => amount
    entered,                \* ReentrancyGuard: _status == ENTERED
    balances,               \* asset -> holder -> units (native and ERC20)
    allowance,              \* ERC20 allowance granted to the contract
    stack,                  \* pending external calls, innermost last
    last                    \* the call that completed most recently

VARIABLES
    blockNumber,            \* height of the chain (provider.getBlockNumber)
    logs,                   \* the contract's event log, oldest first
    startBlock,             \* configuration value START_BLOCK
    lastSyncedBlocks,       \* EventListenerService.lastSyncedBlocks (in memory)
    cycles,                 \* the running invocations of syncBlockchainEvents
    replica,                \* table `escrows` (escrowRepository), in insertion order
    notifications,          \* NotificationService.notifications (in memory)
    disputes                \* table `disputes` (disputeRepository)

VARIABLES
    nonces,                 \* AuthService.nonces (in memory)
    now,                    \* Date.now()
    issued,                 \* how many nonces ethers.randomBytes has produced
    signatures,             \* the signatures the wallets have made
    logins                  \* the calls of verifySignature that returned tokens

auth == <<nonces, now, issued, signatures, logins>>

offchain == <<blockNumber, logs, startBlock, auth, lastSyncedBlocks, cycles, replica,
              notifications, disputes>>

chain == <<escrows, escrowIdCounter, authorizedArbitrators, defaultFee, feeCollector,
           collectedFees, entered, balances, allowance>>
vars == <<escrows, escrowIdCounter, authorizedArbitrators, defaultFee, feeCollector,
          collectedFees, entered, balances, allowance, stack, last,
          blockNumber, logs, startBlock, auth, lastSyncedBlocks, cycles, replica,
          notifications, disputes>>

\* The contract's storage and the balances, as one value.
World ==
    [escrows |-> escrows, escrowIdCounter |-> escrowIdCounter,
     authorizedArbitrators |-> authorizedArbitrators, defaultFee |-> defaultFee,
     feeCollector |-> feeCollector, collectedFees |-> collectedFees,
     entered |-> entered, balances |-> balances, allowance |-> allowance]

Install(w) ==
    /\ escrows' = w.escrows
    /\ escrowIdCounter' = w.escrowIdCounter
    /\ authorizedArbitrators' = w.authorizedArbitrators
    /\ defaultFee' = w.defaultFee
    /\ feeCollector' = w.feeCollector
    /\ collectedFees' = w.collectedFees
    /\ entered' = w.entered
    /\ balances' = w.balances
    /\ allowance' = w.allowance

\* ---------------------------------------------------------------- results

OK == "ok"
NoCall == [pc |-> "none"]

\* A revert: the state at the entry of the function is restored.
\* The events it emitted are discarded with it.
Revert(w0, reason) == [err |-> reason, w |-> w0, call |-> NoCall, events |-> <<>>]
\* The function returned.
Return(w) == [err |-> OK, w |-> w, call |-> NoCall, events |-> <<>>]
\* The function is inside an external call that moves amt of asset.
Calling(w, body, pc, from, to, asset, amt) ==
    [err |-> OK, w |-> w,
     call |-> [body |-> body, pc |-> pc, from |-> from, to |-> to, asset |-> asset, amt |-> amt],
     events |-> <<>>]

\* `emit ev` followed by the code whose outcome is r.
Emit(ev, r) == IF r.err = OK THEN [r EXCEPT !.events = <<ev>> \o @] ELSE r

EscrowCreated(escrowId, client, provider, token, amount, deadline) ==
    [name |-> "EscrowCreated", escrowId |-> escrowId, client |-> client, provider |-> provider,
     token |-> token, amount |-> amount, deadline |-> deadline]
EscrowFunded(escrowId, funder, amount) ==
    [name |-> "EscrowFunded", escrowId |-> escrowId, funder |-> funder, amount |-> amount]
EscrowReleased(escrowId, provider, amount, fee) ==
    [name |-> "EscrowReleased", escrowId |-> escrowId, provider |-> provider,
     amount |-> amount, fee |-> fee]
EscrowRefunded(escrowId, client, amount) ==
    [name |-> "EscrowRefunded", escrowId |-> escrowId, client |-> client, amount |-> amount]
\* The event also carries block.timestamp, which the model leaves out.
DisputeOpened(escrowId, opener) ==
    [name |-> "DisputeOpened", escrowId |-> escrowId, opener |-> opener]
DisputeResolved(escrowId, arbitrator, inFavorOfClient) ==
    [name |-> "DisputeResolved", escrowId |-> escrowId, arbitrator |-> arbitrator,
     inFavorOfClient |-> inFavorOfClient]
EscrowCancelled(escrowId, client) ==
    [name |-> "EscrowCancelled", escrowId |-> escrowId, client |-> client]
ArbitratorAdded(arbitrator) == [name |-> "ArbitratorAdded", arbitrator |-> arbitrator]
ArbitratorRemoved(arbitrator) == [name |-> "ArbitratorRemoved", arbitrator |-> arbitrator]
FeeCollectorUpdated(newFeeCollector) ==
    [name |-> "FeeCollectorUpdated", newFeeCollector |-> newFeeCollector]
DefaultFeeUpdated(newFee) == [name |-> "DefaultFeeUpdated", newFee |-> newFee]

\* No invocation of syncBlockchainEvents runs in this slot.
Idle == [pc |-> "idle", logged |-> FALSE]
\* The invocation of this slot threw, and syncBlockchainEvents logged the
\* error and ended.
Thrown == [pc |-> "idle", logged |-> TRUE]

\* An address without an entry in AuthService.nonces.
NoNonce == [nonce |-> 0, expiresAt |-> 0]

Pay(bal, asset, from, to, amt) ==
    [bal EXCEPT ![asset] = [h \in Holders |->
        IF from = to /\ h = from THEN bal[asset][h]
        ELSE IF h = from THEN bal[asset][h] - amt
        ELSE IF h = to THEN bal[asset][h] + amt
        ELSE bal[asset][h]]]

Terminal(s) == s \in {"RELEASED", "REFUNDED", "CANCELLED"}

\* An arbitrator check that lets the record's client through.
onlyArbitrator_orClient(w, sender, id) ==
    \/ w.authorizedArbitrators[sender]
    \/ w.escrows[id].arbitrator = sender
    \/ w.escrows[id].client = sender
\* modifier onlyArbitrator
onlyArbitrator(w, sender, id) ==
    w.authorizedArbitrators[sender] \/ w.escrows[id].arbitrator = sender


\* modifier onlyOwner (Ownable)
onlyOwner(sender) == sender = OWNER

\* A status that is written to every record.
SetStatus_everyRecord(w, id, s) ==
    [w EXCEPT !.escrows = [i \in DOMAIN w.escrows |-> [w.escrows[i] EXCEPT !.status = s]]]
SetStatus(w, id, s) == [w EXCEPT !.escrows[id].status = s]

\* An outgoing transfer of the contract: `to.call{value: amt}("")` for the
\* native asset, `safeTransfer(to, amt)` for a token.  It fails at once when
\* the contract does not hold amt; otherwise the value moves and the
\* recipient's code runs.
TransferOut(w0, w, body, pc, to, asset, amt, reason) ==
    IF w.balances[asset][ESCROW] < amt
    THEN Revert(w0, reason)
    ELSE Calling([w EXCEPT !.balances = Pay(w.balances, asset, ESCROW, to, amt)],
                 body, pc, ESCROW, to, asset, amt)

\* ------------------------------------------------------------ createEscrow

\* A deadline check that lets the present moment through.
deadlineOk_orNow(deadline, timestamp) == deadline > 0 => deadline >= timestamp
\* require(deadline > block.timestamp) when a deadline is given.
deadlineOk(deadline, timestamp) == deadline > 0 => deadline > timestamp

createEscrow(w, sender, provider, arbitrator, token, amount, deadline, timestamp) ==
    IF provider = ZERO THEN Revert(w, "Invalid provider address")
    ELSE IF provider = sender THEN Revert(w, "Client and provider must be different")
    ELSE IF ~(amount > 0) THEN Revert(w, "Amount must be greater than 0")
    ELSE IF ~deadlineOk(deadline, timestamp) THEN Revert(w, "Deadline must be in the future")
    ELSE Emit(EscrowCreated(w.escrowIdCounter, sender, provider, token, amount, deadline),
              Return([w EXCEPT
                !.escrowIdCounter = w.escrowIdCounter + 1,
                !.escrows[w.escrowIdCounter] =
                    [client |-> sender, provider |-> provider, arbitrator |-> arbitrator,
                     token |-> token, amount |-> amount, fee |-> w.defaultFee,
                     status |-> "CREATED"]]))

\* -------------------------------------------------------------- fundEscrow

\* A fund call that takes any value covering the amount.
valueMatches_atLeast(value, amount) == value >= amount
\* require(msg.value == escrow.amount)
valueMatches(value, amount) == value = amount

\* A fund call that lets native value through on a token record.
noValue_unchecked(value) == TRUE
\* require(msg.value == 0)
noValue(value) == value = 0

\* msg.value has been credited to the contract when the body starts.
fundEscrow(w, sender, id, value) ==
    LET e == w.escrows[id]
        w1 == [w EXCEPT !.balances = Pay(w.balances, ZERO, sender, ESCROW, value),
                        !.entered = TRUE]
    IN  IF w.entered THEN Revert(w, "ReentrancyGuardReentrantCall")
        ELSE IF e.client = ZERO THEN Revert(w, "Escrow does not exist")
        ELSE IF e.status # "CREATED" THEN Revert(w, "Invalid escrow status")
        ELSE IF e.client # sender THEN Revert(w, "Not the client")
        ELSE IF e.token = ZERO
        THEN IF ~valueMatches(value, e.amount)
             THEN Revert(w, "Incorrect ETH amount")
             ELSE Emit(EscrowFunded(id, sender, e.amount),
                       Return([SetStatus(w1, id, "FUNDED") EXCEPT !.entered = FALSE]))
        ELSE IF ~noValue(value) THEN Revert(w, "ETH not accepted for token escrow")
        ELSE IF w.allowance[sender] < e.amount THEN Revert(w, "ERC20InsufficientAllowance")
        ELSE IF w.balances[e.token][sender] < e.amount THEN Revert(w, "ERC20InsufficientBalance")
        ELSE Calling([w1 EXCEPT !.balances = Pay(w1.balances, e.token, sender, ESCROW, e.amount),
                                !.allowance[sender] = IF @ = MaxUint THEN @ ELSE @ - e.amount],
                     "fund", "pull", sender, ESCROW, e.token, e.amount)

\* safeTransferFrom returned.
fundAfterPull(w, id) ==
    Emit(EscrowFunded(id, w.escrows[id].client, w.escrows[id].amount),
         Return([SetStatus(w, id, "FUNDED") EXCEPT !.entered = FALSE]))

\* ------------------------------------------------------- releaseToProvider

\* A multiplication that wraps around instead of failing.
mul_wrapping(a, b) == [overflow |-> FALSE, value |-> (a * b) % (MaxUint + 1)]
\* a * b on uint256 under Solidity ^0.8: the product is checked, and the
\* call panics when it does not fit.
mul(a, b) == [overflow |-> a * b > MaxUint, value |-> (a * b) % (MaxUint + 1)]

\* A fee that is rounded up.
feeAmountOf_roundedUp(e) == (e.amount * e.fee + FEE_DENOMINATOR - 1) \div FEE_DENOMINATOR
feeAmountOf(e) == mul(e.amount, e.fee).value \div FEE_DENOMINATOR
\* A provider amount from which the fee is taken twice.
providerAmountOf_feeTwice(e) == e.amount - 2 * feeAmountOf(e)
providerAmountOf(e) == e.amount - feeAmountOf(e)

\* A release that the provider may call too.
mayRelease_orProvider(w, sender, id) ==
    \/ sender = w.escrows[id].client
    \/ sender = w.escrows[id].provider
    \/ sender = w.escrows[id].arbitrator
    \/ w.authorizedArbitrators[sender]
\* "Only client or arbitrator can release"
mayRelease(w, sender, id) ==
    \/ sender = w.escrows[id].client
    \/ sender = w.escrows[id].arbitrator
    \/ w.authorizedArbitrators[sender]

\* w0 is the state a revert restores: the entry of the external function.
releaseBody(w0, w, sender, id) ==
    LET e == w.escrows[id]
        w1 == [SetStatus(w, id, "RELEASED") EXCEPT !.entered = TRUE]
    IN  IF w.entered THEN Revert(w0, "ReentrancyGuardReentrantCall")
        ELSE IF e.client = ZERO THEN Revert(w0, "Escrow does not exist")
        ELSE IF e.status # "FUNDED" THEN Revert(w0, "Invalid escrow status")
        ELSE IF ~mayRelease(w, sender, id) THEN Revert(w0, "Not authorized to release")
        ELSE IF mul(e.amount, e.fee).overflow THEN Revert(w0, "Panic(0x11)")
        ELSE TransferOut(w0, w1, "release", "provider", e.provider, e.token,
                         providerAmountOf(e),
                         IF e.token = ZERO THEN "Transfer to provider failed"
                                           ELSE "ERC20InsufficientBalance")

releaseToProvider(w, sender, id) == releaseBody(w, w, sender, id)

\* The transfer to the provider returned: the fee, if any, goes to the
\* fee collector of this moment.
releaseAfterProvider(w0, w, id) ==
    LET e == w.escrows[id] IN
    IF feeAmountOf(e) > 0
    THEN TransferOut(w0, w, "release", "fee", w.feeCollector, e.token, feeAmountOf(e),
                     IF e.token = ZERO THEN "Fee transfer failed"
                                       ELSE "ERC20InsufficientBalance")
    ELSE Emit(EscrowReleased(id, e.provider, providerAmountOf(e), feeAmountOf(e)),
              Return([w EXCEPT !.entered = FALSE]))

\* A release that does not book the fee.
releaseAfterFee_noLedger(w, id) ==
    LET e == w.escrows[id] IN
    Emit(EscrowReleased(id, e.provider, providerAmountOf(e), feeAmountOf(e)),
         Return([w EXCEPT !.entered = FALSE]))

\* The transfer to the fee collector returned.
releaseAfterFee(w, id) ==
    LET e == w.escrows[id] IN
    Emit(EscrowReleased(id, e.provider, providerAmountOf(e), feeAmountOf(e)),
         Return([w EXCEPT !.collectedFees[e.token] = @ + feeAmountOf(e), !.entered = FALSE]))

\* ---------------------------------------------------------- refundToClient

\* A refund that keeps the fee.
refundAmountOf_lessFee(e) == e.amount - feeAmountOf(e)
\* "Refund full amount (no fee on refund)"
refundAmountOf(e) == e.amount

refundBody(w0, w, sender, id) ==
    LET e == w.escrows[id]
        w1 == [SetStatus(w, id, "REFUNDED") EXCEPT !.entered = TRUE]
    IN  IF w.entered THEN Revert(w0, "ReentrancyGuardReentrantCall")
        ELSE IF e.client = ZERO THEN Revert(w0, "Escrow does not exist")
        ELSE IF ~onlyArbitrator(w, sender, id) THEN Revert(w0, "Not an authorized arbitrator")
        ELSE IF ~(e.status = "FUNDED" \/ e.status = "DISPUTED")
        THEN Revert(w0, "Invalid status for refund")
        ELSE TransferOut(w0, w1, "refund", "client", e.client, e.token, refundAmountOf(e),
                         IF e.token = ZERO THEN "Refund transfer failed"
                                           ELSE "ERC20InsufficientBalance")

refundToClient(w, sender, id) == refundBody(w, w, sender, id)

\* A refund that emits no event.
refundAfterClient_silent(w, id) == Return([w EXCEPT !.entered = FALSE])

\* The transfer to the client returned.
refundAfterClient(w, id) ==
    Emit(EscrowRefunded(id, w.escrows[id].client, w.escrows[id].amount),
         Return([w EXCEPT !.entered = FALSE]))

\* ------------------------------------------------------------- openDispute

\* An openDispute that does not look at the status.
openDispute_anyStatus(w, sender, id) ==
    LET e == w.escrows[id] IN
    IF e.client = ZERO THEN Revert(w, "Escrow does not exist")
    ELSE IF ~(sender = e.client \/ sender = e.provider)
    THEN Revert(w, "Only client or provider can open dispute")
    ELSE Emit(DisputeOpened(id, sender), Return(SetStatus(w, id, "DISPUTED")))

\* An openDispute that anyone may call.
openDispute_anyCaller(w, sender, id) ==
    LET e == w.escrows[id] IN
    IF e.client = ZERO THEN Revert(w, "Escrow does not exist")
    ELSE IF e.status # "FUNDED" THEN Revert(w, "Invalid escrow status")
    ELSE Emit(DisputeOpened(id, sender), Return(SetStatus(w, id, "DISPUTED")))

openDispute(w, sender, id) ==
    LET e == w.escrows[id] IN
    IF e.client = ZERO THEN Revert(w, "Escrow does not exist")
    ELSE IF e.status # "FUNDED" THEN Revert(w, "Invalid escrow status")
    ELSE IF ~(sender = e.client \/ sender = e.provider)
    THEN Revert(w, "Only client or provider can open dispute")
    ELSE Emit(DisputeOpened(id, sender), Return(SetStatus(w, id, "DISPUTED")))

\* ---------------------------------------------------------- resolveDispute

\* A resolveDispute whose two branches are exchanged.
resolveDispute_swapped(w, sender, id, inFavorOfClient) ==
    LET e == w.escrows[id] IN
    IF e.client = ZERO THEN Revert(w, "Escrow does not exist")
    ELSE IF e.status # "DISPUTED" THEN Revert(w, "Invalid escrow status")
    ELSE IF ~onlyArbitrator(w, sender, id) THEN Revert(w, "Not an authorized arbitrator")
    ELSE IF ~inFavorOfClient
    THEN refundBody(w, w, sender, id)
    ELSE releaseBody(w, SetStatus(w, id, "FUNDED"), sender, id)

resolveDispute(w, sender, id, inFavorOfClient) ==
    LET e == w.escrows[id] IN
    IF e.client = ZERO THEN Revert(w, "Escrow does not exist")
    ELSE IF e.status # "DISPUTED" THEN Revert(w, "Invalid escrow status")
    ELSE IF ~onlyArbitrator(w, sender, id) THEN Revert(w, "Not an authorized arbitrator")
    ELSE Emit(DisputeResolved(id, sender, inFavorOfClient),
              IF inFavorOfClient
              THEN refundBody(w, w, sender, id)
              ELSE releaseBody(w, SetStatus(w, id, "FUNDED"), sender, id))

\* ------------------------------------------------------------ cancelEscrow

\* A cancel that does not look at the status.
cancelEscrow_anyStatus(w, sender, id) ==
    LET e == w.escrows[id] IN
    IF e.client = ZERO THEN Revert(w, "Escrow does not exist")
    ELSE IF e.client # sender THEN Revert(w, "Not the client")
    ELSE Return(SetStatus(w, id, "CANCELLED"))

cancelEscrow(w, sender, id) ==
    LET e == w.escrows[id] IN
    IF e.client = ZERO THEN Revert(w, "Escrow does not exist")
    ELSE IF e.status # "CREATED" THEN Revert(w, "Invalid escrow status")
    ELSE IF e.client # sender THEN Revert(w, "Not the client")
    ELSE Emit(EscrowCancelled(id, sender), Return(SetStatus(w, id, "CANCELLED")))

\* ---------------------------------------------------------- admin functions

addArbitrator(w, sender, arbitrator) ==
    IF ~onlyOwner(sender) THEN Revert(w, "OwnableUnauthorizedAccount")
    ELSE IF arbitrator = ZERO THEN Revert(w, "Invalid arbitrator address")
    ELSE Emit(ArbitratorAdded(arbitrator),
              Return([w EXCEPT !.authorizedArbitrators[arbitrator] = TRUE]))

\* A removeArbitrator that leaves the registry as it is.
removeArbitrator_keeps(w, sender, arbitrator) ==
    IF ~onlyOwner(sender) THEN Revert(w, "OwnableUnauthorizedAccount")
    ELSE Emit(ArbitratorRemoved(arbitrator), Return(w))

removeArbitrator(w, sender, arbitrator) ==
    IF ~onlyOwner(sender) THEN Revert(w, "OwnableUnauthorizedAccount")
    ELSE Emit(ArbitratorRemoved(arbitrator),
              Return([w EXCEPT !.authorizedArbitrators[arbitrator] = FALSE]))

setFeeCollector(w, sender, newFeeCollector) ==
    IF ~onlyOwner(sender) THEN Revert(w, "OwnableUnauthorizedAccount")
    ELSE IF newFeeCollector = ZERO THEN Revert(w, "Invalid fee collector")
    ELSE Emit(FeeCollectorUpdated(newFeeCollector),
              Return([w EXCEPT !.feeCollector = newFeeCollector]))

\* A setDefaultFee that accepts any fee.
setDefaultFee_unbounded(w, sender, newFee) ==
    IF ~onlyOwner(sender) THEN Revert(w, "OwnableUnauthorizedAccount")
    ELSE Emit(DefaultFeeUpdated(newFee), Return([w EXCEPT !.defaultFee = newFee]))

\* A setDefaultFee that also rewrites the fee of the existing records.
setDefaultFee_retroactive(w, sender, newFee) ==
    IF ~onlyOwner(sender) THEN Revert(w, "OwnableUnauthorizedAccount")
    ELSE IF ~(newFee <= MAX_FEE) THEN Revert(w, "Fee exceeds maximum")
    ELSE Emit(DefaultFeeUpdated(newFee),
              Return([w EXCEPT !.defaultFee = newFee,
                               !.escrows = [id \in DOMAIN w.escrows |->
                                   IF w.escrows[id].client = ZERO THEN w.escrows[id]
                                   ELSE [w.escrows[id] EXCEPT !.fee = newFee]]]))

setDefaultFee(w, sender, newFee) ==
    IF ~onlyOwner(sender) THEN Revert(w, "OwnableUnauthorizedAccount")
    ELSE IF ~(newFee <= MAX_FEE) THEN Revert(w, "Fee exceeds maximum")
    ELSE Emit(DefaultFeeUpdated(newFee), Return([w EXCEPT !.defaultFee = newFee]))

emergencyWithdraw(w, sender, token, amount) ==
    IF ~onlyOwner(sender) THEN Revert(w, "OwnableUnauthorizedAccount")
    ELSE TransferOut(w, w, "withdraw", "owner", OWNER, token, amount,
                     IF token = ZERO THEN "Emergency withdraw failed"
                                     ELSE "ERC20InsufficientBalance")

\* The transfer to the owner returned.
withdrawAfterOwner(w) == Return(w)


\* ------------------------------------------------------------- transactions

\* The backend as its constructors leave it, over empty tables and a chain
\* that carries the contract alone.
Constructed ==
    /\ blockNumber = 0
    /\ logs = <<>>
    /\ lastSyncedBlocks = <<>>
    /\ cycles = [i \in 1 .. MaxCycles |-> Idle]
    /\ replica = <<>>
    /\ notifications = [a \in Addr |-> <<>>]
    /\ disputes = <<>>
    /\ nonces = [a \in Addr |-> NoNonce]
    /\ now = 0
    /\ issued = 0
    /\ signatures = {}
    /\ logins = <<>>

\* `last` describes the step just taken when that step ended a call that had
\* made an external call, and is NoLast after any other step.
NoLast == [fn |-> "none"]

Init ==
    /\ escrows = [i \in Ids |-> EscrowData]
    /\ escrowIdCounter = 0
    /\ authorizedArbitrators = [a \in Addr \cup {ZERO} |-> FALSE]
    /\ defaultFee = InitialDefaultFee
    /\ feeCollector = OWNER
    /\ collectedFees = [t \in Assets |-> 0]
    /\ entered = FALSE
    /\ balances = [t \in Assets |-> [h \in Holders |-> IF h = ESCROW THEN 0 ELSE InitBalance]]
    /\ allowance = [a \in Addr |-> 0]
    /\ stack = <<>>
    /\ last = NoLast
    /\ Constructed
    /\ startBlock = 0

Top == stack[Len(stack)]
Pop == SubSeq(stack, 1, Len(stack) - 1)

\* Every pending call has seen a call into the contract made under it.
Touch(st) == [i \in DOMAIN st |-> [st[i] EXCEPT !.reentered = TRUE]]

Transfer(c) == [from |-> c.from, to |-> c.to, asset |-> c.asset, amt |-> c.amt]

\* A call of function fn by sender, r being what its code does up to its
\* first external call.  The caller is an account when no call is pending,
\* and the code some pending external call runs otherwise.
Begin(fn, sender, id, arg, r) ==
    IF r.call = NoCall
    THEN /\ Install(r.w)
         /\ stack' = Touch(stack)
         /\ last' = NoLast
         /\ UNCHANGED offchain
    ELSE /\ Len(stack) < MaxDepth
         /\ Install(r.w)
         /\ stack' = Append(Touch(stack),
                [fn |-> fn, body |-> r.call.body, pc |-> r.call.pc, id |-> id,
                 sender |-> sender, arg |-> arg, snap |-> World, sent |-> <<Transfer(r.call)>>,
                 events |-> r.events, reentered |-> FALSE])
         /\ last' = NoLast
         /\ UNCHANGED offchain

CreateEscrow ==
    \E in \in CreateInputs, timestamp \in Timestamps :
        /\ escrowIdCounter < MaxEscrows
        /\ Begin("createEscrow", in.sender, escrowIdCounter, in.amount,
                 createEscrow(World, in.sender, in.provider, in.arbitrator, in.token, in.amount,
                              in.deadline, timestamp))

FundEscrow ==
    \E sender \in Addr, id \in Ids, value \in Values :
        /\ balances[ZERO][sender] >= value
        /\ Begin("fundEscrow", sender, id, value, fundEscrow(World, sender, id, value))

ReleaseToProvider ==
    \E sender \in Addr, id \in Ids :
        Begin("releaseToProvider", sender, id, 0, releaseToProvider(World, sender, id))

RefundToClient ==
    \E sender \in Addr, id \in Ids :
        Begin("refundToClient", sender, id, 0, refundToClient(World, sender, id))

OpenDispute ==
    \E sender \in Addr, id \in Ids :
        Begin("openDispute", sender, id, 0, openDispute(World, sender, id))

ResolveDispute ==
    \E sender \in Addr, id \in Ids, inFavorOfClient \in BOOLEAN :
        Begin("resolveDispute", sender, id, inFavorOfClient, resolveDispute(World, sender, id, inFavorOfClient))

CancelEscrow ==
    \E sender \in Addr, id \in Ids :
        Begin("cancelEscrow", sender, id, 0, cancelEscrow(World, sender, id))

AddArbitrator ==
    \E sender \in AdminSenders, arbitrator \in ArbitratorInputs :
        Begin("addArbitrator", sender, NoId, arbitrator, addArbitrator(World, sender, arbitrator))

RemoveArbitrator ==
    \E sender \in AdminSenders, arbitrator \in ArbitratorInputs :
        Begin("removeArbitrator", sender, NoId, arbitrator, removeArbitrator(World, sender, arbitrator))

SetFeeCollector ==
    \E sender \in AdminSenders, newFeeCollector \in FeeCollectorInputs :
        Begin("setFeeCollector", sender, NoId, newFeeCollector, setFeeCollector(World, sender, newFeeCollector))

SetDefaultFee ==
    \E sender \in AdminSenders, newFee \in NewFees :
        Begin("setDefaultFee", sender, NoId, newFee, setDefaultFee(World, sender, newFee))

EmergencyWithdraw ==
    \E sender \in AdminSenders, token \in Assets, amount \in WithdrawAmounts :
        Begin("emergencyWithdraw", sender, NoId, amount, emergencyWithdraw(World, sender, token, amount))

\* The token's approve(spender = the contract, amt), by an account.
Approve ==
    \E a \in Approvers, amt \in ApproveAmounts :
        /\ stack = <<>>
        /\ allowance' = [allowance EXCEPT ![a] = amt]
        /\ last' = NoLast
        /\ UNCHANGED <<escrows, escrowIdCounter, authorizedArbitrators, defaultFee,
                       feeCollector, collectedFees, entered, balances, stack>>
        /\ UNCHANGED offchain

\* What the function of frame f does once its pending external call returned.
Resume(f, w) ==
    CASE f.pc = "pull"     -> fundAfterPull(w, f.id)
      [] f.pc = "provider" -> releaseAfterProvider(f.snap, w, f.id)
      [] f.pc = "fee"      -> releaseAfterFee(w, f.id)
      [] f.pc = "client"   -> refundAfterClient(w, f.id)
      [] f.pc = "owner"    -> withdrawAfterOwner(w)

\* A failed transfer that is reported but whose caller does not revert.
TransferFailed_noRollback(f) ==
    [err |-> "transfer failed", w |-> [World EXCEPT !.entered = f.snap.entered],
     call |-> NoCall, events |-> <<>>]

\* What the function of frame f does once its pending external call failed:
\* require(success, ...) for a native transfer, SafeERC20 for a token.
TransferFailed(f) ==
    Revert(f.snap,
        CASE f.pc = "pull" -> "SafeERC20FailedOperation"
          [] f.pc \in {"provider", "fee", "client", "owner"} /\ f.sent[Len(f.sent)].asset # ZERO
                -> "SafeERC20FailedOperation"
          [] f.pc = "provider" -> "Transfer to provider failed"
          [] f.pc = "fee"      -> "Fee transfer failed"
          [] f.pc = "client"   -> "Refund transfer failed"
          [] f.pc = "owner"    -> "Emergency withdraw failed")

Finish(f, r) ==
    /\ Install(r.w)
    /\ stack' = Pop
    /\ last' = [fn |-> f.fn, id |-> f.id, sender |-> f.sender, arg |-> f.arg, err |-> r.err,
                sent |-> f.sent, reentered |-> f.reentered, pre |-> f.snap,
                events |-> IF r.err = OK THEN f.events \o r.events ELSE <<>>]
    /\ UNCHANGED offchain

\* The innermost pending external call returns successfully.
CalleeReturns ==
    /\ stack # <<>>
    /\ LET f == Top
           r == Resume(f, World)
       IN  IF r.call = NoCall
           THEN Finish(f, r)
           ELSE /\ Install(r.w)
                /\ stack' = [stack EXCEPT ![Len(stack)] =
                        [f EXCEPT !.pc = r.call.pc, !.sent = Append(@, Transfer(r.call)),
                                  !.events = @ \o r.events]]
                /\ last' = NoLast
                /\ UNCHANGED offchain

\* The innermost pending external call fails (the recipient reverts, the
\* token refuses the transfer).
CalleeFails ==
    /\ stack # <<>>
    /\ Finish(Top, TransferFailed(Top))

Next ==
    \/ CreateEscrow
    \/ FundEscrow
    \/ ReleaseToProvider
    \/ RefundToClient
    \/ OpenDispute
    \/ ResolveDispute
    \/ CancelEscrow
    \/ AddArbitrator
    \/ RemoveArbitrator
    \/ SetFeeCollector
    \/ SetDefaultFee
    \/ EmergencyWithdraw
    \/ Approve
    \/ CalleeReturns
    \/ CalleeFails

Spec == Init /\ [][Next]_vars

\* The contract with room for MaxCreates records, and the calls that make
\* records and set the fee they snapshot.
CreateIds == 0 .. (MaxCreates - 1)

InitCreate ==
    /\ escrows = [i \in CreateIds |-> EscrowData]
    /\ escrowIdCounter = 0
    /\ authorizedArbitrators = [a \in Addr \cup {ZERO} |-> FALSE]
    /\ defaultFee = InitialDefaultFee
    /\ feeCollector = OWNER
    /\ collectedFees = [t \in Assets |-> 0]
    /\ entered = FALSE
    /\ balances = [t \in Assets |-> [h \in Holders |-> IF h = ESCROW THEN 0 ELSE InitBalance]]
    /\ allowance = [a \in Addr |-> 0]
    /\ stack = <<>>
    /\ last = NoLast
    /\ Constructed
    /\ startBlock = 0

CreateMore ==
    \E in \in CreateInputs, timestamp \in Timestamps :
        /\ escrowIdCounter < MaxCreates
        /\ Begin("createEscrow", in.sender, escrowIdCounter, in.amount,
                 createEscrow(World, in.sender, in.provider, in.arbitrator, in.token, in.amount,
                              in.deadline, timestamp))

NextCreate ==
    \/ CreateMore
    \/ SetDefaultFee
    \/ CancelEscrow

SpecCreate == InitCreate /\ [][NextCreate]_vars


\* ------------------------------------------------- the chain, as it is read

\* BlockchainService.getSupportedChainIds(): the chains that are configured.
ChainIds == {1}
\* Values of START_BLOCK: unset, and a block after the first record was made.
StartBlocks == {0, 2}
\* A null column.
NULL == 0 - 1

\* EscrowStatus as the uint8 the contract returns and the table stores.
StatusCode(s) ==
    CASE s = "CREATED"   -> 0
      [] s = "FUNDED"    -> 1
      [] s = "DISPUTED"  -> 2
      [] s = "RELEASED"  -> 3
      [] s = "REFUNDED"  -> 4
      [] s = "CANCELLED" -> 5

\* BlockchainService.getEscrow: the record as the contract holds it in `w`.
getEscrow(w, escrowId) ==
    LET e == w.escrows[escrowId] IN
    [client |-> e.client, provider |-> e.provider, arbitrator |-> e.arbitrator,
     token |-> e.token, amount |-> e.amount, fee |-> e.fee, status |-> StatusCode(e.status)]

\* contract.queryFilter(contract.filters.<name>(), fromBlock, toBlock): the
\* events of that name in the blocks fromBlock .. toBlock, both included.
queryFilter(name, fromBlock, toBlock) ==
    SelectSeq(logs, LAMBDA l : /\ l.event.name = name
                               /\ l.blockNumber >= fromBlock
                               /\ l.blockNumber <= toBlock)

\* A transaction that calls the contract in `w` and is mined: r is what the
\* called function does up to its first external call; every external call
\* returns and nothing calls back.  The result carries the events emitted.
RECURSIVE Mined(_, _, _)
Mined(r, w, id) ==
    IF r.call = NoCall THEN r
    ELSE LET n == Mined(Resume([pc |-> r.call.pc, snap |-> w, id |-> id], r.w), w, id)
         IN  [n EXCEPT !.events = IF n.err = OK THEN r.events \o @ ELSE <<>>]

\* A successful transaction makes a block that carries its events.  A
\* reverted one leaves no event and no change of the contract.
Mine(r0, id) ==
    LET r == Mined(r0, World, id) IN
    /\ stack = <<>>
    /\ blockNumber < MaxBlock
    /\ r.err = OK
    /\ Install(r.w)
    /\ blockNumber' = blockNumber + 1
    /\ logs' = logs \o [i \in 1 .. Len(r.events) |->
                            [blockNumber |-> blockNumber + 1, event |-> r.events[i]]]
    /\ UNCHANGED <<stack, last, startBlock, auth, lastSyncedBlocks, cycles, replica,
                   notifications, disputes>>

MineCreate ==
    \E in \in CreateInputs, timestamp \in Timestamps :
        /\ escrowIdCounter < MaxEscrows
        /\ Mine(createEscrow(World, in.sender, in.provider, in.arbitrator, in.token, in.amount,
                             in.deadline, timestamp), escrowIdCounter)

MineFund ==
    \E sender \in Addr, id \in Ids, value \in Values :
        /\ balances[ZERO][sender] >= value
        /\ Mine(fundEscrow(World, sender, id, value), id)

MineRelease ==
    \E sender \in Addr, id \in Ids : Mine(releaseToProvider(World, sender, id), id)

MineRefund ==
    \E sender \in Addr, id \in Ids : Mine(refundToClient(World, sender, id), id)

MineOpenDispute ==
    \E sender \in Addr, id \in Ids : Mine(openDispute(World, sender, id), id)

MineResolve ==
    \E sender \in Addr, id \in Ids, inFavorOfClient \in BOOLEAN :
        Mine(resolveDispute(World, sender, id, inFavorOfClient), id)

MineCancel ==
    \E sender \in Addr, id \in Ids : Mine(cancelEscrow(World, sender, id), id)

\* ---------------------------------------------------- EventListenerService

\* escrowRepository.findOne({ where: { chainId, escrowId } }): the position of
\* the row, 0 for null.
findOne(rows, chainId, escrowId) ==
    LET S == {i \in DOMAIN rows : rows[i].chainId = chainId /\ rows[i].escrowId = escrowId}
    IN  IF S = {} THEN 0 ELSE CHOOSE i \in S : \A j \in S : i <= j

\* A table without the unique index.
uniqueViolation_off(rows, row) == FALSE
\* @Index(['chainId', 'escrowId'], { unique: true }): the insert of `row` is
\* refused.
uniqueViolation(rows, row) ==
    \E i \in DOMAIN rows : rows[i].chainId = row.chainId /\ rows[i].escrowId = row.escrowId

\* What handleEscrowCreated builds from the event l and the record escrowData
\* read from the contract.  Addresses are lower case throughout the model and
\* amounts are kept as numbers; description and transactionHash are not kept.
newEscrow(chainId, l, escrowData) ==
    [chainId |-> chainId, escrowId |-> l.event.escrowId,
     client |-> l.event.client, provider |-> l.event.provider,
     arbitrator |-> escrowData.arbitrator, token |-> l.event.token,
     amount |-> l.event.amount, fee |-> escrowData.fee, status |-> escrowData.status,
     deadline |-> IF l.event.deadline > 0 THEN l.event.deadline * 1000 ELSE NULL,
     blockNumber |-> l.blockNumber]

\* A funded handler that inserts nothing and updates nothing.
handleEscrowFunded_noop(rows, chainId, l) == rows
\* handleEscrowFunded: the row, if there is one, gets status 1.
handleEscrowFunded(rows, chainId, l) ==
    LET i == findOne(rows, chainId, l.event.escrowId) IN
    IF i # 0 THEN [rows EXCEPT ![i].status = 1] ELSE rows

\* this.lastSyncedBlocks.get(chainId) || 0
fromBlockOf(chainId) ==
    IF chainId \in DOMAIN lastSyncedBlocks THEN lastSyncedBlocks[chainId] ELSE 0

\* onModuleInit has run in this process.
Booted == DOMAIN lastSyncedBlocks # {}
Running(i) == cycles[i].pc # "idle"
InitialSync == \E i \in DOMAIN cycles : Running(i) /\ cycles[i].initial

\* An invocation of syncBlockchainEvents, at its first await.  With one chain
\* configured the loop over the chains has one turn.
Invocation(initial, chainId) ==
    [pc |-> "getBlockNumber", initial |-> initial, chainId |-> chainId,
     currentBlock |-> 0, fromBlock |-> 0, queue |-> <<>>]

\* onModuleInit: every configured chain starts at START_BLOCK, then the
\* initial sync runs.  The framework starts the timer when it has ended.
OnModuleInit ==
    /\ ~Booted
    /\ lastSyncedBlocks' = [c \in ChainIds |-> startBlock]
    /\ \E chainId \in ChainIds :
          cycles' = [cycles EXCEPT ![1] = Invocation(TRUE, chainId)]
    /\ UNCHANGED <<chain, stack, last, blockNumber, logs, startBlock, auth, replica,
                   notifications, disputes>>

\* @Cron(EVERY_30_SECONDS): the timer calls syncBlockchainEvents, whether or
\* not an earlier invocation is still running.
CronTick ==
    /\ Booted
    /\ ~InitialSync
    /\ \E i \in DOMAIN cycles, chainId \in ChainIds :
          /\ ~Running(i)
          /\ \A j \in DOMAIN cycles : j < i => Running(j)
          /\ cycles' = [cycles EXCEPT ![i] = Invocation(FALSE, chainId)]
    /\ UNCHANGED <<chain, stack, last, blockNumber, logs, startBlock, auth, lastSyncedBlocks,
                   replica, notifications, disputes>>

\* syncChainEvents up to its loops: the height is read, then the cursor; an
\* empty window ends the invocation.  The events of the window are those of
\* the two queries, the created ones first.
GetBlockNumber(i) ==
    /\ cycles[i].pc = "getBlockNumber"
    /\ LET currentBlock == blockNumber
           fromBlock == fromBlockOf(cycles[i].chainId)
       IN  cycles' = [cycles EXCEPT ![i] =
              IF fromBlock >= currentBlock THEN Idle
              ELSE [@ EXCEPT !.pc = "events", !.currentBlock = currentBlock,
                             !.fromBlock = fromBlock,
                             !.queue = queryFilter("EscrowCreated", fromBlock, currentBlock)
                                       \o queryFilter("EscrowFunded", fromBlock, currentBlock)]]
    /\ UNCHANGED <<chain, stack, last, blockNumber, logs, startBlock, auth, lastSyncedBlocks,
                   replica, notifications, disputes>>

\* handleEscrowCreated up to `if (existing) return`.
HandleEscrowCreated(i) ==
    /\ cycles[i].pc = "events"
    /\ cycles[i].queue # <<>>
    /\ Head(cycles[i].queue).event.name = "EscrowCreated"
    /\ LET l == Head(cycles[i].queue)
           existing == findOne(replica, cycles[i].chainId, l.event.escrowId)
       IN  cycles' = [cycles EXCEPT ![i] =
              IF existing # 0 THEN [@ EXCEPT !.queue = Tail(@)]
              ELSE [@ EXCEPT !.pc = "getEscrow"]]
    /\ UNCHANGED <<chain, stack, last, blockNumber, logs, startBlock, auth, lastSyncedBlocks,
                   replica, notifications, disputes>>

\* handleEscrowCreated from getEscrow to save.  A refused insert throws; the
\* error ends syncChainEvents and is caught by syncBlockchainEvents.
SaveEscrowCreated(i) ==
    /\ cycles[i].pc = "getEscrow"
    /\ LET l == Head(cycles[i].queue)
           row == newEscrow(cycles[i].chainId, l, getEscrow(World, l.event.escrowId))
       IN  IF uniqueViolation(replica, row)
           THEN /\ cycles' = [cycles EXCEPT ![i] = Thrown]
                /\ UNCHANGED replica
           ELSE /\ replica' = Append(replica, row)
                /\ cycles' = [cycles EXCEPT ![i] = [@ EXCEPT !.pc = "events", !.queue = Tail(@)]]
    /\ UNCHANGED <<chain, stack, last, blockNumber, logs, startBlock, auth, lastSyncedBlocks,
                   notifications, disputes>>

HandleEscrowFunded(i) ==
    /\ cycles[i].pc = "events"
    /\ cycles[i].queue # <<>>
    /\ Head(cycles[i].queue).event.name = "EscrowFunded"
    /\ replica' = handleEscrowFunded(replica, cycles[i].chainId, Head(cycles[i].queue))
    /\ cycles' = [cycles EXCEPT ![i] = [@ EXCEPT !.queue = Tail(@)]]
    /\ UNCHANGED <<chain, stack, last, blockNumber, logs, startBlock, auth, lastSyncedBlocks,
                   notifications, disputes>>

\* A cursor that is set to the height of the chain at this moment.
advanced_toHead(m, c) == [m EXCEPT ![c.chainId] = blockNumber]
\* this.lastSyncedBlocks.set(chainId, currentBlock)
advanced(m, c) == [m EXCEPT ![c.chainId] = c.currentBlock]

\* The loops are over: the cursor is set and the invocation ends.
Advance(i) ==
    /\ cycles[i].pc = "events"
    /\ cycles[i].queue = <<>>
    /\ lastSyncedBlocks' = advanced(lastSyncedBlocks, cycles[i])
    /\ cycles' = [cycles EXCEPT ![i] = Idle]
    /\ UNCHANGED <<chain, stack, last, blockNumber, logs, startBlock, auth, replica,
                   notifications, disputes>>

\* A catch that takes the window as done.
caught_advancing(m, c) ==
    IF c.pc = "getBlockNumber" THEN m ELSE [m EXCEPT ![c.chainId] = c.currentBlock]
\* catch (error) { this.logger.error(...) }: the cursor after an invocation
\* that threw.
caught(m, c) == m

\* A read of the chain or an access to the table fails: the await the
\* invocation is at throws, syncBlockchainEvents logs the error and ends.
ReadFails(i) ==
    /\ Running(i)
    /\ lastSyncedBlocks' = caught(lastSyncedBlocks, cycles[i])
    /\ cycles' = [cycles EXCEPT ![i] = Thrown]
    /\ UNCHANGED <<chain, stack, last, blockNumber, logs, startBlock, auth, replica,
                   notifications, disputes>>

\* The process stops and a new one is constructed: what is held in memory is
\* lost, the tables stay.
Restart ==
    /\ Booted
    /\ lastSyncedBlocks' = <<>>
    /\ cycles' = [i \in DOMAIN cycles |-> Idle]
    /\ notifications' = [a \in Addr |-> <<>>]
    /\ UNCHANGED <<chain, stack, last, blockNumber, logs, startBlock, auth, replica, disputes>>

\* ------------------------------------------------------ NotificationService

\* addNotification: the list of the address gets the notification at its
\* end and keeps its last 50 entries.
addNotification(store, address, notification) ==
    LET userNotifications == Append(store[address], notification) IN
    [store EXCEPT ![address] = IF Len(userNotifications) > 50
                               THEN Tail(userNotifications) ELSE userNotifications]

\* NotificationGateway.sendNotification: the notification is pushed to the
\* socket of the address, if one is connected, and stored.
sendNotification(store, address, notification) == addNotification(store, address, notification)

\* ---------------------------------------------- the backend and the chain

InitIndexer ==
    /\ escrows = [i \in Ids |-> EscrowData]
    /\ escrowIdCounter = 0
    /\ authorizedArbitrators = [a \in Addr \cup {ZERO} |-> FALSE]
    /\ defaultFee = InitialDefaultFee
    /\ feeCollector = OWNER
    /\ collectedFees = [t \in Assets |-> 0]
    /\ entered = FALSE
    /\ balances = [t \in Assets |-> [h \in Holders |-> IF h = ESCROW THEN 0 ELSE InitBalance]]
    /\ allowance = [a \in Addr |-> 0]
    /\ stack = <<>>
    /\ last = NoLast
    /\ Constructed
    /\ startBlock \in StartBlocks

NextIndexer ==
    \/ MineCreate
    \/ MineFund
    \/ MineRelease
    \/ MineRefund
    \/ MineOpenDispute
    \/ MineResolve
    \/ MineCancel
    \/ OnModuleInit
    \/ CronTick
    \/ \E i \in DOMAIN cycles : GetBlockNumber(i)
    \/ \E i \in DOMAIN cycles : HandleEscrowCreated(i)
    \/ \E i \in DOMAIN cycles : SaveEscrowCreated(i)
    \/ \E i \in DOMAIN cycles : HandleEscrowFunded(i)
    \/ \E i \in DOMAIN cycles : Advance(i)
    \/ \E i \in DOMAIN cycles : ReadFails(i)
    \/ Restart

SpecIndexer == InitIndexer /\ [][NextIndexer]_vars


\* ----------------------------------------------------------- DisputeService

\* The generated id of a row is its position in its table.  Ids a caller may
\* name: those of the rows there can be, and one that no row has.
EscrowUuids == 1 .. (MaxEscrows + 1)
DisputeUuids == 1 .. (MaxDisputes + 1)

\* DisputeService.create(escrowId, opener, reason) over the tables drows
\* (disputes) and erows (escrows).
DisputeService_create(drows, erows, escrowId, opener) ==
    IF escrowId \notin DOMAIN erows
    THEN [err |-> "NotFoundException", rows |-> drows]
    ELSE IF erows[escrowId].status # 1
    THEN [err |-> "Escrow must be in FUNDED status to open a dispute", rows |-> drows]
    ELSE IF opener # erows[escrowId].client /\ opener # erows[escrowId].provider
    THEN [err |-> "Only client or provider can open a dispute", rows |-> drows]
    ELSE [err |-> OK,
          rows |-> Append(drows, [escrowId |-> escrowId, opener |-> opener, status |-> "OPEN",
                                  resolver |-> NULL, inFavorOfClient |-> NULL])]

\* DisputeService.resolve(id, resolver, inFavorOfClient, resolution)
DisputeService_resolve(drows, id, resolver, inFavorOfClient) ==
    IF id \notin DOMAIN drows
    THEN [err |-> "NotFoundException", rows |-> drows]
    ELSE IF drows[id].status # "OPEN"
    THEN [err |-> "Dispute is already resolved", rows |-> drows]
    ELSE [err |-> OK,
          rows |-> [drows EXCEPT ![id] = [@ EXCEPT !.status = "RESOLVED",
                                                   !.resolver = resolver,
                                                   !.inFavorOfClient = inFavorOfClient]]]

\* POST /disputes by an authenticated address.
DisputeCreate ==
    \E escrowId \in EscrowUuids, opener \in Addr :
        LET r == DisputeService_create(disputes, replica, escrowId, opener) IN
        /\ Len(disputes) < MaxDisputes
        /\ r.err = OK
        /\ disputes' = r.rows
        /\ UNCHANGED <<chain, stack, last, blockNumber, logs, startBlock, auth, lastSyncedBlocks,
                       cycles, replica, notifications>>

\* POST /disputes/:id/resolve by an authenticated address.
DisputeResolve ==
    \E id \in DisputeUuids, resolver \in Addr, inFavorOfClient \in BOOLEAN :
        LET r == DisputeService_resolve(disputes, id, resolver, inFavorOfClient) IN
        /\ r.err = OK
        /\ disputes' = r.rows
        /\ UNCHANGED <<chain, stack, last, blockNumber, logs, startBlock, auth, lastSyncedBlocks,
                       cycles, replica, notifications>>

\* The backend from its start through its initial sync, over a chain on which
\* records are created and funded, and the dispute endpoints.
NextDispute ==
    \/ MineCreate
    \/ MineFund
    \/ OnModuleInit
    \/ \E i \in DOMAIN cycles : GetBlockNumber(i)
    \/ \E i \in DOMAIN cycles : HandleEscrowCreated(i)
    \/ \E i \in DOMAIN cycles : SaveEscrowCreated(i)
    \/ \E i \in DOMAIN cycles : HandleEscrowFunded(i)
    \/ \E i \in DOMAIN cycles : Advance(i)
    \/ DisputeCreate
    \/ DisputeResolve

SpecDispute == InitIndexer /\ [][NextDispute]_vars


\* ------------------------------------------------------------------ claims

InvalidState == {"Invalid escrow status", "Invalid status for refund"}
Unauthorized == {"Not the client", "Not an authorized arbitrator",
                 "Not authorized to release", "Only client or provider can open dispute"}
AmountMismatch == "Incorrect ETH amount"
UnexpectedValue == "ETH not accepted for token escrow"
Reentrant == "ReentrancyGuardReentrantCall"

Edges == { <<"CREATED", "FUNDED">>, <<"CREATED", "CANCELLED">>, <<"FUNDED", "RELEASED">>,
           <<"FUNDED", "DISPUTED">>, <<"FUNDED", "REFUNDED">>, <<"DISPUTED", "REFUNDED">>,
           <<"DISPUTED", "RELEASED">> }

Exists(id) == escrows[id].client # ZERO
\* sender is the designated arbitrator of record id or is in the registry.
IsArbitrator(w, sender, id) ==
    sender = w.escrows[id].arbitrator \/ w.authorizedArbitrators[sender]
\* The call r fails and changes nothing.
Rejected(r) == r.err # OK /\ r.w = World /\ r.call = NoCall
RejectedWith(r, errs) == r.err \in errs /\ r.w = World /\ r.call = NoCall
\* The call r, made on `w`, runs to its end when every external call it makes
\* returns and nothing calls back into the contract meanwhile.
RECURSIVE RunToEnd(_, _, _)
RunToEnd(r, w, id) ==
    IF r.call = NoCall THEN r
    ELSE RunToEnd(Resume([pc |-> r.call.pc, snap |-> w, id |-> id], r.w), w, id)

Ended(fn) == last.fn = fn /\ last.err = OK
Out(to, asset, amt) == [from |-> ESCROW, to |-> to, asset |-> asset, amt |-> amt]

\* C1: every change of a record's status that is not undone by a revert is
\* an edge of the lifecycle graph, no record returns to CREATED, and a record
\* that is RELEASED, REFUNDED or CANCELLED is never changed again, nor is a
\* payout ever started for a record that was terminal when the call began.
C1_LifecycleEdges ==
    [][ \/ (last'.fn # "none" /\ last'.err # OK)
        \/ /\ \A id \in Ids :
                /\ escrows'[id].status # escrows[id].status
                     => <<escrows[id].status, escrows'[id].status>> \in Edges
                /\ (Exists(id) /\ Terminal(escrows[id].status)) => escrows'[id] = escrows[id]
           /\ \A i \in DOMAIN stack' :
                stack'[i].body \in {"release", "refund"}
                    => ~Terminal(stack'[i].snap.escrows[stack'[i].id].status)
      ]_vars

\* C2 (as stated): every state-changing call against a record that is
\* RELEASED, REFUNDED or CANCELLED, by any caller, fails with InvalidState
\* and changes nothing.
C2_TerminalFailsInvalidState ==
    \A id \in Ids, sender \in Addr :
        (Exists(id) /\ Terminal(escrows[id].status)) =>
            /\ \A value \in Values :
                   RejectedWith(fundEscrow(World, sender, id, value), InvalidState)
            /\ RejectedWith(releaseToProvider(World, sender, id), InvalidState)
            /\ RejectedWith(refundToClient(World, sender, id), InvalidState)
            /\ RejectedWith(openDispute(World, sender, id), InvalidState)
            /\ \A inFavorOfClient \in BOOLEAN :
                   RejectedWith(resolveDispute(World, sender, id, inFavorOfClient), InvalidState)
            /\ RejectedWith(cancelEscrow(World, sender, id), InvalidState)

\* C2 (amended): every such call fails and changes nothing; the error is
\* InvalidState, except that fund, release and refund fail with the
\* reentrancy guard's error while the guard is held, and that refund by a
\* caller who is no arbitrator of the record fails with Unauthorized.
C2_TerminalFails ==
    \A id \in Ids, sender \in Addr :
        (Exists(id) /\ Terminal(escrows[id].status)) =>
            /\ \A value \in Values :
                   RejectedWith(fundEscrow(World, sender, id, value),
                                IF entered THEN {Reentrant} ELSE InvalidState)
            /\ RejectedWith(releaseToProvider(World, sender, id),
                            IF entered THEN {Reentrant} ELSE InvalidState)
            /\ RejectedWith(refundToClient(World, sender, id),
                            IF entered THEN {Reentrant}
                            ELSE IF ~IsArbitrator(World, sender, id)
                                 THEN {"Not an authorized arbitrator"}
                                 ELSE InvalidState)
            /\ RejectedWith(openDispute(World, sender, id), InvalidState)
            /\ \A inFavorOfClient \in BOOLEAN :
                   RejectedWith(resolveDispute(World, sender, id, inFavorOfClient), InvalidState)
            /\ RejectedWith(cancelEscrow(World, sender, id), InvalidState)

\* A release has just completed, and a caller who is no arbitrator of the
\* released record is refused a refund as unauthorized.
C2_Witness ==
    /\ Ended("releaseToProvider")
    /\ stack = <<>>
    /\ escrows[last.id].status = "RELEASED"
    /\ \E sender \in Addr :
          /\ ~IsArbitrator(World, sender, last.id)
          /\ refundToClient(World, sender, last.id).err = "Not an authorized arbitrator"
          /\ cancelEscrow(World, sender, last.id).err = "Invalid escrow status"

\* C3: a successful release of a FUNDED record of amount A and fee rate F
\* sends A - floor(A*F/10000) to the provider and floor(A*F/10000) to the fee
\* collector, the two adding up to A, and the contract's balance of the asset
\* falls by exactly A.
C3_ReleaseSplit ==
    Ended("releaseToProvider") =>
        LET e == last.pre.escrows[last.id]
            A == e.amount
            F == e.fee
            fee == (A * F) \div 10000
            prov == A - fee
            paid == Pay(last.pre.balances, e.token, ESCROW, e.provider, prov)
        IN  /\ e.status = "FUNDED"
            /\ escrows[last.id].status = "RELEASED"
            /\ prov + fee = A
            /\ last.sent[1] = Out(e.provider, e.token, prov)
            /\ IF fee > 0
               THEN /\ Len(last.sent) = 2
                    /\ last.sent[2].from = ESCROW
                    /\ last.sent[2].asset = e.token
                    /\ last.sent[2].amt = fee
               ELSE Len(last.sent) = 1
            /\ ~last.reentered =>
                 /\ fee > 0 => last.sent[2].to = feeCollector
                 /\ balances = Pay(paid, e.token, ESCROW, feeCollector, fee)
                 /\ balances[e.token][ESCROW] = last.pre.balances[e.token][ESCROW] - A

\* A release has completed whose fee is a floor that drops a remainder.
C3_Witness ==
    /\ Ended("releaseToProvider")
    /\ ~last.reentered
    /\ Len(last.sent) = 2
    /\ (escrows[last.id].amount * escrows[last.id].fee) % 10000 # 0

\* C4: every successful refund (refund from FUNDED or from DISPUTED, or
\* resolveDispute in favour of the client) sends the record's amount to the
\* client and nothing else to anyone, and leaves the collected fees as they
\* were.
C4_RefundInFull ==
    (Ended("refundToClient") \/ (Ended("resolveDispute") /\ last.arg)) =>
        LET e == last.pre.escrows[last.id] IN
        /\ e.status \in {"FUNDED", "DISPUTED"}
        /\ escrows[last.id].status = "REFUNDED"
        /\ last.sent = << Out(e.client, e.token, e.amount) >>
        /\ collectedFees = last.pre.collectedFees
        /\ ~last.reentered =>
              balances = Pay(last.pre.balances, e.token, ESCROW, e.client, e.amount)

\* A refund of a disputed record whose fee would not have been zero.
C4_Witness ==
    /\ Ended("refundToClient")
    /\ ~last.reentered
    /\ last.pre.escrows[last.id].status = "DISPUTED"
    /\ (escrows[last.id].amount * escrows[last.id].fee) \div 10000 > 0

CanRelease(w, sender, id) ==
    \/ sender = w.escrows[id].client
    \/ sender = w.escrows[id].arbitrator
    \/ w.authorizedArbitrators[sender]

\* C5: release goes through only on a FUNDED record and only for its client,
\* its designated arbitrator or a member of the arbitrator registry; a call by
\* anyone else, the provider included, fails and changes nothing.
C5_ReleaseAuthorized ==
    /\ \A id \in Ids, sender \in Addr :
          LET r == releaseToProvider(World, sender, id) IN
          /\ r.err = OK => (Exists(id) /\ escrows[id].status = "FUNDED"
                               /\ CanRelease(World, sender, id))
          /\ ~CanRelease(World, sender, id) => Rejected(r)
          /\ escrows[id].status # "FUNDED" => Rejected(r)
    /\ Ended("releaseToProvider") =>
          /\ last.pre.escrows[last.id].status = "FUNDED"
          /\ CanRelease(last.pre, last.sender, last.id)

\* A FUNDED record whose provider holds no role is refused, while its client
\* is not.
C5_Witness ==
    \E id \in Ids :
        /\ stack = <<>>
        /\ escrows[id].status = "FUNDED"
        /\ ~CanRelease(World, escrows[id].provider, id)
        /\ releaseToProvider(World, escrows[id].provider, id).err = "Not authorized to release"
        /\ releaseToProvider(World, escrows[id].client, id).err = OK

\* C6: refund goes through only on a FUNDED or DISPUTED record and only for
\* an arbitrator of the record; a caller who is no arbitrator never moves a
\* record to REFUNDED and never moves a DISPUTED record out of DISPUTED.
C6_RefundAuthorized ==
    /\ \A id \in Ids, sender \in Addr :
          LET r == refundToClient(World, sender, id) IN
          /\ r.err = OK => (Exists(id) /\ escrows[id].status \in {"FUNDED", "DISPUTED"}
                               /\ IsArbitrator(World, sender, id))
          /\ ~IsArbitrator(World, sender, id) =>
                /\ Rejected(r)
                /\ \A inFavorOfClient \in BOOLEAN :
                      Rejected(resolveDispute(World, sender, id, inFavorOfClient))
                /\ escrows[id].status = "DISPUTED" =>
                      /\ \A value \in Values :
                            fundEscrow(World, sender, id, value).w.escrows[id].status = "DISPUTED"
                      /\ releaseToProvider(World, sender, id).w.escrows[id].status = "DISPUTED"
                      /\ openDispute(World, sender, id).w.escrows[id].status = "DISPUTED"
                      /\ cancelEscrow(World, sender, id).w.escrows[id].status = "DISPUTED"
    /\ (Ended("refundToClient") \/ Ended("resolveDispute")) =>
          /\ IsArbitrator(last.pre, last.sender, last.id)
          /\ last.pre.escrows[last.id].status \in {"FUNDED", "DISPUTED"}
    /\ \A i \in DOMAIN stack :
          (stack[i].body \in {"release", "refund"}
             /\ stack[i].snap.escrows[stack[i].id].status = "DISPUTED")
          => IsArbitrator(stack[i].snap, stack[i].sender, stack[i].id)

\* A DISPUTED record whose client and provider hold no arbitrator role: both
\* are refused, by refund and by resolveDispute.
C6_Witness ==
    \E id \in Ids :
        /\ stack = <<>>
        /\ escrows[id].status = "DISPUTED"
        /\ ~IsArbitrator(World, escrows[id].client, id)
        /\ ~IsArbitrator(World, escrows[id].provider, id)
        /\ refundToClient(World, escrows[id].client, id).err = "Not an authorized arbitrator"
        /\ resolveDispute(World, escrows[id].provider, id, TRUE).err
              = "Not an authorized arbitrator"


\* C7 (as stated): on a CREATED native-asset record, a fund call by the
\* client with value equal to the amount sets FUNDED; with any other value it
\* fails with AmountMismatch, status and contract balance unchanged; and on
\* any CREATED record a fund call by a non-client fails with Unauthorized.
C7_NativeFunding ==
    \A id \in Ids, sender \in Addr, value \in Values :
        (Exists(id) /\ escrows[id].status = "CREATED") =>
            LET e == escrows[id]
                r == fundEscrow(World, sender, id, value)
            IN  /\ (e.token = ZERO /\ sender = e.client /\ value = e.amount) =>
                      /\ r.err = OK /\ r.call = NoCall
                      /\ r.w.escrows[id].status = "FUNDED"
                      /\ r.w.balances[ZERO][ESCROW] = balances[ZERO][ESCROW] + e.amount
                /\ (e.token = ZERO /\ sender = e.client /\ value # e.amount) =>
                      RejectedWith(r, {AmountMismatch})
                /\ sender # e.client => RejectedWith(r, {"Not the client"})

\* C7 (amended): the same, for a call made while the reentrancy guard is not
\* held; a fund call made while it is held fails with the guard's error and
\* changes nothing.
C7_NativeFundingUnlessReentrant ==
    \A id \in Ids, sender \in Addr, value \in Values :
        (Exists(id) /\ escrows[id].status = "CREATED") =>
            LET e == escrows[id]
                r == fundEscrow(World, sender, id, value)
            IN  IF entered THEN RejectedWith(r, {Reentrant})
                ELSE
                /\ (e.token = ZERO /\ sender = e.client /\ value = e.amount) =>
                      /\ r.err = OK /\ r.call = NoCall
                      /\ r.w.escrows[id].status = "FUNDED"
                      /\ r.w.balances[ZERO][ESCROW] = balances[ZERO][ESCROW] + e.amount
                /\ (e.token = ZERO /\ sender = e.client /\ value # e.amount) =>
                      RejectedWith(r, {AmountMismatch})
                /\ sender # e.client => RejectedWith(r, {"Not the client"})

\* A native-asset record is FUNDED and the contract holds its amount.
C7_Witness ==
    \E id \in Ids :
        /\ stack = <<>>
        /\ escrows[id].token = ZERO
        /\ escrows[id].status = "FUNDED"
        /\ balances[ZERO][ESCROW] = escrows[id].amount

TokenFunded ==
    last.fn = "fundEscrow" =>
        LET e == last.pre.escrows[last.id] IN
        IF last.err = OK
        THEN /\ escrows[last.id].status = "FUNDED"
             /\ last.sent = << [from |-> e.client, to |-> ESCROW, asset |-> e.token,
                                amt |-> e.amount] >>
             /\ ~last.reentered =>
                   balances = Pay(last.pre.balances, e.token, e.client, ESCROW, e.amount)
        ELSE /\ World = last.pre
             /\ escrows[last.id].status = "CREATED"

TokenPull(id, sender, value, r) ==
    LET e == escrows[id] IN
    /\ value # 0 => RejectedWith(r, {UnexpectedValue})
    /\ value = 0 =>
          IF allowance[sender] >= e.amount /\ balances[e.token][sender] >= e.amount
          THEN /\ r.err = OK
               /\ r.call.from = sender /\ r.call.to = ESCROW
               /\ r.call.asset = e.token /\ r.call.amt = e.amount
               /\ r.w.balances = Pay(balances, e.token, sender, ESCROW, e.amount)
               /\ r.w.escrows[id].status = "CREATED"
          ELSE Rejected(r)

\* C8 (as stated): on a CREATED token-asset record, a fund call by the client
\* fails with UnexpectedValue if native value accompanies it; otherwise it
\* pulls exactly the amount from the caller into the contract, and if the
\* pull fails the call fails, the status still CREATED and no token moved.
C8_TokenFunding ==
    /\ \A id \in Ids, value \in Values :
          (Exists(id) /\ escrows[id].status = "CREATED" /\ escrows[id].token # ZERO) =>
              TokenPull(id, escrows[id].client, value,
                        fundEscrow(World, escrows[id].client, id, value))
    /\ TokenFunded

\* C8 (amended): the same, for a call made while the reentrancy guard is not
\* held; a fund call made while it is held fails with the guard's error and
\* changes nothing.
C8_TokenFundingUnlessReentrant ==
    /\ \A id \in Ids, value \in Values :
          (Exists(id) /\ escrows[id].status = "CREATED" /\ escrows[id].token # ZERO) =>
              LET r == fundEscrow(World, escrows[id].client, id, value) IN
              IF entered THEN RejectedWith(r, {Reentrant})
              ELSE TokenPull(id, escrows[id].client, value, r)
    /\ TokenFunded

\* The token refused the pull: the fund call failed, the record is CREATED
\* and the contract holds no token.
C8_Witness ==
    /\ last.fn = "fundEscrow"
    /\ last.err = "SafeERC20FailedOperation"
    /\ escrows[last.id].status = "CREATED"
    /\ allowance[escrows[last.id].client] >= escrows[last.id].amount
    /\ balances[TOKEN][ESCROW] = 0

\* C9: when an external transfer of release, refund or resolveDispute fails,
\* the fee transfer after a successful provider transfer included, the call
\* fails with no effect: status, balances and collected fees are those before
\* the call, and the same call is not refused for its status or its caller.
C9_TransferFailureAtomic ==
    /\ (last.fn \in {"releaseToProvider", "refundToClient", "resolveDispute"} /\ last.err # OK) =>
          LET id == last.id IN
          /\ World = last.pre
          /\ escrows[id].status = last.pre.escrows[id].status
          /\ balances = last.pre.balances
          /\ collectedFees = last.pre.collectedFees
          /\ last.fn = "releaseToProvider" => escrows[id].status = "FUNDED"
          /\ last.fn = "refundToClient" => escrows[id].status \in {"FUNDED", "DISPUTED"}
          /\ last.fn = "resolveDispute" => escrows[id].status = "DISPUTED"
          /\ LET r == CASE last.fn = "releaseToProvider" -> releaseToProvider(World, last.sender, id)
                        [] last.fn = "refundToClient" -> refundToClient(World, last.sender, id)
                        [] last.fn = "resolveDispute" ->
                               resolveDispute(World, last.sender, id, last.arg)
             IN  r.err \notin (InvalidState \cup Unauthorized \cup {Reentrant})
    /\ \A id \in Ids, sender \in Addr :
          /\ releaseToProvider(World, sender, id).err # OK
                => Rejected(releaseToProvider(World, sender, id))
          /\ refundToClient(World, sender, id).err # OK
                => Rejected(refundToClient(World, sender, id))
          /\ \A inFavorOfClient \in BOOLEAN :
                resolveDispute(World, sender, id, inFavorOfClient).err # OK
                    => Rejected(resolveDispute(World, sender, id, inFavorOfClient))

\* The fee transfer of a release failed after the provider had been paid.
C9_Witness ==
    /\ last.fn = "releaseToProvider"
    /\ last.err = "Fee transfer failed"
    /\ Len(last.sent) = 2
    /\ escrows[last.id].status = "FUNDED"

\* C10: a resolveDispute by an arbitrator on a DISPUTED record ends in the
\* status and the balances, collected fees included, that refund(id) reaches
\* from the same state when in favour of the client, and that release(id)
\* reaches from the same state with the record FUNDED otherwise; the fee is
\* charged on the release path only.
C10_ResolveEquivalent ==
    (Ended("resolveDispute") /\ ~last.reentered) =>
        LET id == last.id
            pre == last.pre
            direct == IF last.arg
                      THEN RunToEnd(refundToClient(pre, last.sender, id), pre, id)
                      ELSE RunToEnd(releaseToProvider(SetStatus(pre, id, "FUNDED"),
                                                      last.sender, id), pre, id)
        IN  /\ pre.escrows[id].status = "DISPUTED"
            /\ direct.err = OK
            /\ World = direct.w
            /\ escrows[id].status = IF last.arg THEN "REFUNDED" ELSE "RELEASED"
            /\ last.arg => collectedFees = pre.collectedFees
            /\ ~last.arg => collectedFees[escrows[id].token]
                    = pre.collectedFees[escrows[id].token]
                      + (escrows[id].amount * escrows[id].fee) \div 10000

\* A dispute was resolved for the provider and a fee was charged.
C10_Witness ==
    /\ Ended("resolveDispute")
    /\ ~last.reentered
    /\ ~last.arg
    /\ Len(last.sent) = 2
    /\ collectedFees[escrows[last.id].token] > 0


\* The sum of f[i] over the i of S.
RECURSIVE Sum(_, _)
Sum(f, S) == IF S = {} THEN 0 ELSE LET i == CHOOSE j \in S : TRUE IN f[i] + Sum(f, S \ {i})

\* What the records of asset t that are FUNDED or DISPUTED in w have deposited.
Locked(w, t) ==
    Sum([id \in Ids |-> w.escrows[id].amount],
        {id \in Ids : /\ w.escrows[id].client # ZERO
                      /\ w.escrows[id].token = t
                      /\ w.escrows[id].status \in {"FUNDED", "DISPUTED"}})

\* C11: no operation of the owner takes out of the contract what the records
\* that are FUNDED or DISPUTED have deposited: whenever the contract holds at
\* least the deposits of those records, it still does after addArbitrator,
\* removeArbitrator, setFeeCollector, setDefaultFee or emergencyWithdraw by the
\* owner, and none of them changes a record.
C11_NonCustodial ==
    \A t \in Assets :
        balances[t][ESCROW] >= Locked(World, t) =>
            /\ \A token \in Assets, amount \in WithdrawAmounts :
                   LET r == emergencyWithdraw(World, OWNER, token, amount) IN
                   /\ r.w.balances[t][ESCROW] >= Locked(r.w, t)
                   /\ r.w.escrows = escrows
            /\ \A a \in ArbitratorInputs :
                   /\ addArbitrator(World, OWNER, a).w.balances = balances
                   /\ removeArbitrator(World, OWNER, a).w.balances = balances
            /\ \A c \in FeeCollectorInputs : setFeeCollector(World, OWNER, c).w.balances = balances
            /\ \A fee \in NewFees : setDefaultFee(World, OWNER, fee).w.balances = balances

\* Every state-changing call on record id, by every caller, fails in the
\* present state and changes nothing.
AllRejected(id) ==
    \A sender \in Addr :
        /\ \A value \in Values : Rejected(fundEscrow(World, sender, id, value))
        /\ Rejected(releaseToProvider(World, sender, id))
        /\ Rejected(refundToClient(World, sender, id))
        /\ Rejected(openDispute(World, sender, id))
        /\ \A inFavorOfClient \in BOOLEAN :
               Rejected(resolveDispute(World, sender, id, inFavorOfClient))
        /\ Rejected(cancelEscrow(World, sender, id))

SentTotal(sent) == Sum([i \in DOMAIN sent |-> sent[i].amt], DOMAIN sent)

\* C12: while a release (a refund) waits for one of its transfers to return,
\* the record is already RELEASED (REFUNDED) and every call on that record,
\* by any caller, fails and changes nothing; a release or refund that
\* completes has paid out the record's amount exactly once and leaves the
\* record RELEASED or REFUNDED, whatever was called meanwhile.
C12_PaidOnce ==
    /\ \A i \in DOMAIN stack :
          stack[i].body \in {"release", "refund"} =>
              /\ escrows[stack[i].id].status
                    = (IF stack[i].body = "release" THEN "RELEASED" ELSE "REFUNDED")
              /\ stack[i].snap.escrows[stack[i].id].status \in {"FUNDED", "DISPUTED"}
              /\ SentTotal(stack[i].sent) <= escrows[stack[i].id].amount
              /\ AllRejected(stack[i].id)
    /\ (Ended("releaseToProvider") \/ Ended("refundToClient") \/ Ended("resolveDispute")) =>
          /\ last.pre.escrows[last.id].status \in {"FUNDED", "DISPUTED"}
          /\ Terminal(escrows[last.id].status)
          /\ SentTotal(last.sent) = escrows[last.id].amount
          /\ \A i \in DOMAIN last.sent :
                last.sent[i].from = ESCROW /\ last.sent[i].asset = escrows[last.id].token

\* A release waits for its fee transfer; calls were made meanwhile; the
\* provider's openDispute and an arbitrator's refund on the record are refused.
C12_Witness ==
    \E i \in DOMAIN stack :
        LET id == stack[i].id IN
        /\ stack[i].body = "release"
        /\ stack[i].pc = "fee"
        /\ stack[i].reentered
        /\ escrows[id].status = "RELEASED"
        /\ openDispute(World, escrows[id].provider, id).err = "Invalid escrow status"
        /\ \E sender \in Addr :
              /\ IsArbitrator(World, sender, id)
              /\ refundToClient(World, sender, id).err = Reentrant

\* C13: openDispute goes through only on a FUNDED record and only for its
\* client or its provider; it sets the status DISPUTED, changes nothing else
\* and moves no funds; on a CREATED record it fails with InvalidState for
\* every caller, and on a FUNDED record it fails with Unauthorized for every
\* other caller, changing nothing.
C13_OpenDispute ==
    \A id \in Ids, sender \in Addr :
        LET e == escrows[id]
            r == openDispute(World, sender, id)
            party == sender = e.client \/ sender = e.provider
        IN  /\ r.err = OK =>
                  /\ Exists(id) /\ e.status = "FUNDED" /\ party
                  /\ r.call = NoCall
                  /\ r.w = SetStatus(World, id, "DISPUTED")
                  /\ r.w.balances = balances
            /\ (Exists(id) /\ e.status = "FUNDED" /\ party) => r.err = OK
            /\ (Exists(id) /\ e.status = "CREATED") =>
                  RejectedWith(r, {"Invalid escrow status"})
            /\ (Exists(id) /\ e.status = "FUNDED" /\ ~party) =>
                  RejectedWith(r, {"Only client or provider can open dispute"})
            /\ r.err # OK => Rejected(r)

\* A record is DISPUTED with its deposit still in the contract, and a third
\* address was refused on it when it was FUNDED.
C13_Witness ==
    \E id \in Ids :
        /\ stack = <<>>
        /\ escrows[id].status = "DISPUTED"
        /\ balances[escrows[id].token][ESCROW] = escrows[id].amount
        /\ \E sender \in Addr :
              /\ sender \notin {escrows[id].client, escrows[id].provider}
              /\ openDispute(SetStatus(World, id, "FUNDED"), sender, id).err
                    = "Only client or provider can open dispute"

\* cancelEscrow goes through only on a CREATED record and only for its
\* client, sets the status CANCELLED and changes nothing else.
CancelGuarded ==
    \A id \in Ids, sender \in Addr :
        LET r == cancelEscrow(World, sender, id) IN
        /\ r.err = OK =>
              /\ Exists(id) /\ escrows[id].status = "CREATED" /\ sender = escrows[id].client
              /\ r.call = NoCall
              /\ r.w = SetStatus(World, id, "CANCELLED")
        /\ r.err # OK => Rejected(r)

WasFunded(s) == s \in {"FUNDED", "DISPUTED", "RELEASED", "REFUNDED"}

\* C14: cancel goes through only on a CREATED record and only for its client,
\* sets the status CANCELLED and moves no funds; a record that has been
\* funded never becomes CANCELLED and a CANCELLED record never becomes a
\* funded one.
C14_CancelOnlyUnfunded ==
    /\ []CancelGuarded
    /\ [][ \A id \in Ids :
              /\ WasFunded(escrows[id].status) => escrows'[id].status # "CANCELLED"
              /\ (Exists(id) /\ escrows[id].status = "CANCELLED")
                    => ~WasFunded(escrows'[id].status)
         ]_vars

\* A record is created with the default fee of that moment, and a release
\* that completed charged the fee of the record, not the default fee.
FeeSnapshot ==
    /\ \A in \in CreateInputs, timestamp \in Timestamps :
          LET r == createEscrow(World, in.sender, in.provider, in.arbitrator, in.token,
                                in.amount, in.deadline, timestamp)
          IN  (r.err = OK /\ escrowIdCounter \in Ids) =>
                 r.w.escrows[escrowIdCounter].fee = defaultFee
    /\ \A newFee \in NewFees, sender \in AdminSenders :
          setDefaultFee(World, sender, newFee).w.escrows = escrows
    /\ (Ended("releaseToProvider") \/ (Ended("resolveDispute") /\ ~last.arg)) =>
          LET e == last.pre.escrows[last.id]
              fee == (e.amount * e.fee) \div 10000
          IN  /\ escrows[last.id].fee = e.fee
              /\ SentTotal(last.sent) = e.amount
              /\ last.sent[1].amt = e.amount - fee
              /\ last.events[Len(last.events)].name = "EscrowReleased"
              /\ last.events[Len(last.events)].fee = fee

\* C15: a record's fee rate is the default fee in force when it was created
\* and never changes while the record exists, whatever setDefaultFee calls
\* follow; a release charges the fee computed from the record's rate.
C15_FeeSnapshot ==
    /\ []FeeSnapshot
    /\ [][ \A id \in Ids :
              (Exists(id) /\ escrows'[id].client # ZERO) => escrows'[id].fee = escrows[id].fee
         ]_vars

\* A release completed on a record whose rate is not the default fee of the
\* moment, and charged the record's rate.
C15_Witness ==
    /\ Ended("releaseToProvider")
    /\ escrows[last.id].fee # defaultFee
    /\ last.pre.defaultFee # escrows[last.id].fee
    /\ Len(last.sent) = 2
    /\ last.sent[2].amt = (escrows[last.id].amount * escrows[last.id].fee) \div 10000
    /\ last.sent[2].amt # (escrows[last.id].amount * defaultFee) \div 10000

FeeTooHigh == "Fee exceeds maximum"

\* C16: the default fee and the fee rate of every record lie in 0 .. 1000;
\* setDefaultFee with a value above 1000 fails with FeeTooHigh and
\* setDefaultFee by anyone but the owner fails, the default fee unchanged;
\* the owner's call with a value up to 1000 sets it.
C16_FeeBounded ==
    /\ defaultFee \in 0 .. 1000
    /\ \A id \in Ids : escrows[id].fee \in 0 .. 1000
    /\ \A i \in DOMAIN stack : stack[i].snap.defaultFee \in 0 .. 1000
    /\ \A sender \in Addr, newFee \in NewFees \cup {0, 999, 2000} :
          LET r == setDefaultFee(World, sender, newFee) IN
          /\ (sender = OWNER /\ newFee > 1000) => RejectedWith(r, {FeeTooHigh})
          /\ sender # OWNER => RejectedWith(r, {"OwnableUnauthorizedAccount"})
          /\ r.err # OK => r.w.defaultFee = defaultFee
          /\ (sender = OWNER /\ newFee <= 1000) =>
                /\ r.err = OK
                /\ r.w = [World EXCEPT !.defaultFee = newFee]

\* The default fee has been raised to the maximum and a record created since
\* carries it; raising it further is refused.
C16_Witness ==
    /\ defaultFee = 1000
    /\ \E id \in Ids : Exists(id) /\ escrows[id].fee = 1000
    /\ setDefaultFee(World, OWNER, 1001).err = FeeTooHigh
    /\ setDefaultFee(World, OWNER, 1001).w.defaultFee = 1000

FeeOf(e) == (e.amount * e.fee) \div 10000

\* The fees of the RELEASED records of asset t.
FeesOfReleased(t) ==
    Sum([id \in Ids |-> FeeOf(escrows[id])],
        {id \in Ids : Exists(id) /\ escrows[id].token = t /\ escrows[id].status = "RELEASED"})

\* The fees of the releases of asset t that have not returned yet.
FeesInFlight(t) ==
    Sum([i \in DOMAIN stack |-> FeeOf(escrows[stack[i].id])],
        {i \in DOMAIN stack : stack[i].body = "release" /\ escrows[stack[i].id].token = t})

\* The step completed a release, directly or through resolveDispute.
ReleaseCompleted ==
    /\ last'.fn \in {"releaseToProvider", "resolveDispute"}
    /\ last'.err = OK
    /\ last'.fn = "resolveDispute" => ~last'.arg

InvalidParty == {"Invalid provider address", "Client and provider must be different"}
InvalidAmount == "Amount must be greater than 0"
InvalidDeadline == "Deadline must be in the future"

\* getEscrowCount()
getEscrowCount == escrowIdCounter

\* C18: create fails, making no record and using no id, when the provider is
\* unset or is the caller (InvalidParty), when the amount is 0
\* (InvalidAmount), when a non-zero deadline is not after the block's
\* timestamp (InvalidDeadline), the first failing check in this order giving
\* the error; otherwise it makes a CREATED record with client # provider
\* under the id equal to the number of records made before; the ids in use
\* are 0 .. getEscrowCount - 1.
C18_Create ==
    /\ \A id \in DOMAIN escrows : Exists(id) <=> id < escrowIdCounter
    /\ getEscrowCount = Cardinality({id \in DOMAIN escrows : Exists(id)})
    /\ \A id \in DOMAIN escrows : Exists(id) => escrows[id].client # escrows[id].provider
    /\ \A in \in CreateInputs, timestamp \in Timestamps \cup {0, 6} :
          LET r == createEscrow(World, in.sender, in.provider, in.arbitrator, in.token,
                                in.amount, in.deadline, timestamp)
              badParty == in.provider = ZERO \/ in.provider = in.sender
              badAmount == in.amount = 0
              badDeadline == in.deadline # 0 /\ ~(in.deadline > timestamp)
          IN  /\ badParty => RejectedWith(r, InvalidParty)
              /\ (~badParty /\ badAmount) => RejectedWith(r, {InvalidAmount})
              /\ (~badParty /\ ~badAmount /\ badDeadline) => RejectedWith(r, {InvalidDeadline})
              /\ r.err # OK => (Rejected(r) /\ r.events = <<>>)
              /\ (~badParty /\ ~badAmount /\ ~badDeadline) =>
                    /\ r.err = OK /\ r.call = NoCall
                    /\ r.w.escrowIdCounter = escrowIdCounter + 1
                    /\ r.events[1].escrowId = escrowIdCounter
                    /\ escrowIdCounter \in DOMAIN escrows =>
                          /\ r.w.escrows[escrowIdCounter].status = "CREATED"
                          /\ r.w.escrows[escrowIdCounter].client = in.sender
                          /\ r.w.escrows[escrowIdCounter].provider = in.provider
                          /\ r.w.escrows[escrowIdCounter].client
                                # r.w.escrows[escrowIdCounter].provider
                          /\ \A id \in DOMAIN escrows \ {escrowIdCounter} :
                                r.w.escrows[id] = escrows[id]

\* MaxCreates records have been made, one of them with a deadline after the
\* block's timestamp, and ids 0 .. MaxCreates - 1 are all in use.
C18_Witness ==
    /\ getEscrowCount = MaxCreates
    /\ \A id \in CreateIds : Exists(id)
    /\ \E id \in CreateIds : escrows[id].amount = 1
    /\ \E id \in CreateIds : escrows[id].token = TOKEN

NotArbitrator == "Not an authorized arbitrator"

\* The registry is written by the owner's addArbitrator / removeArbitrator
\* only, and an arbitrator-gated call looks at the registry of the moment and
\* at the record's designated arbitrator.
RegistryGates ==
    /\ \A sender \in Addr, a \in Addr \cup {ZERO} :
          /\ sender # OWNER =>
                /\ Rejected(addArbitrator(World, sender, a))
                /\ Rejected(removeArbitrator(World, sender, a))
          /\ (sender = OWNER /\ a # ZERO) =>
                addArbitrator(World, sender, a).w
                    = [World EXCEPT !.authorizedArbitrators[a] = TRUE]
          /\ sender = OWNER =>
                removeArbitrator(World, sender, a).w
                    = [World EXCEPT !.authorizedArbitrators[a] = FALSE]
    /\ \A id \in Ids, sender \in Addr :
          Exists(id) =>
            LET removed == removeArbitrator(World, OWNER, sender).w
                designated == sender = escrows[id].arbitrator
            IN  /\ (~authorizedArbitrators[sender] /\ ~designated) =>
                      /\ Rejected(refundToClient(World, sender, id))
                      /\ \A b \in BOOLEAN : Rejected(resolveDispute(World, sender, id, b))
                /\ ~designated =>
                      /\ refundToClient(removed, sender, id).err # OK
                      /\ refundToClient(removed, sender, id).w = removed
                      /\ \A b \in BOOLEAN :
                            /\ resolveDispute(removed, sender, id, b).err # OK
                            /\ resolveDispute(removed, sender, id, b).w = removed
                /\ (designated \/ authorizedArbitrators[sender]) =>
                      /\ refundToClient(World, sender, id).err # NotArbitrator
                      /\ \A b \in BOOLEAN :
                            resolveDispute(World, sender, id, b).err # NotArbitrator
                /\ designated =>
                      /\ refundToClient(removed, sender, id).err
                            = refundToClient(World, sender, id).err
                      /\ \A b \in BOOLEAN :
                            resolveDispute(removed, sender, id, b).err
                                = resolveDispute(World, sender, id, b).err

\* C19: the arbitrator registry changes only by addArbitrator and
\* removeArbitrator called by the owner, calls by others failing without
\* effect; refund and resolveDispute are open to the members of the registry
\* of the moment and to the record's designated arbitrator: an address taken
\* off the registry is refused on the records it is not designated on, and a
\* designated arbitrator is served whatever the registry says.
C19_ArbitratorRegistry ==
    /\ []RegistryGates
    /\ [][ authorizedArbitrators' # authorizedArbitrators =>
              \/ (last'.fn # "none" /\ last'.err # OK)
              \/ /\ \E a \in Addr :
                       authorizedArbitrators' \in
                          { addArbitrator(World, OWNER, a).w.authorizedArbitrators,
                            removeArbitrator(World, OWNER, a).w.authorizedArbitrators }
                 /\ UNCHANGED <<escrows, escrowIdCounter, defaultFee, feeCollector,
                                collectedFees, entered, balances, allowance>>
         ]_vars

\* An address was in the registry when the pending call began and has been
\* taken off since: the refund it could make then is refused now.
C19_Witness ==
    \E i \in DOMAIN stack, id \in Ids, sender \in Addr :
        /\ stack[i].snap.authorizedArbitrators[sender]
        /\ ~authorizedArbitrators[sender]
        /\ ~entered
        /\ escrows[id].status = "FUNDED"
        /\ sender # escrows[id].arbitrator
        /\ refundToClient(stack[i].snap, sender, id).err = OK
        /\ refundToClient(World, sender, id).err = NotArbitrator

\* The status an event of that name announces.
StatusOf(name) ==
    CASE name = "EscrowCreated"   -> "CREATED"
      [] name = "EscrowFunded"    -> "FUNDED"
      [] name = "EscrowReleased"  -> "RELEASED"
      [] name = "EscrowRefunded"  -> "REFUNDED"
      [] name = "DisputeOpened"   -> "DISPUTED"
      [] name = "EscrowCancelled" -> "CANCELLED"
      [] OTHER -> "none"

\* evs is one event, about record id, announcing status s.
OneEvent(evs, id, s) ==
    /\ Len(evs) = 1
    /\ evs[1].escrowId = id
    /\ StatusOf(evs[1].name) = s

\* The call whose outcome is r, if it made no external call, emitted one
\* event about record id announcing the record's new status, or failed and
\* emitted none.
EmitsOne(r, id) ==
    /\ (r.err = OK /\ r.call = NoCall) => OneEvent(r.events, id, r.w.escrows[id].status)
    /\ r.err # OK => r.events = <<>>

\* What create, fund, openDispute and cancel emit, and what a fund, release
\* or refund that waited for a transfer has emitted when it ends.
EventsOfCalls ==
    /\ \A in \in CreateInputs, timestamp \in Timestamps :
          escrowIdCounter \in Ids =>
              EmitsOne(createEscrow(World, in.sender, in.provider, in.arbitrator, in.token,
                                    in.amount, in.deadline, timestamp), escrowIdCounter)
    /\ \A id \in Ids, sender \in Addr :
          /\ \A value \in Values : EmitsOne(fundEscrow(World, sender, id, value), id)
          /\ EmitsOne(openDispute(World, sender, id), id)
          /\ EmitsOne(cancelEscrow(World, sender, id), id)
          /\ releaseToProvider(World, sender, id).events = <<>>
          /\ refundToClient(World, sender, id).events = <<>>
    /\ last.fn \in {"fundEscrow", "releaseToProvider", "refundToClient"} =>
          IF last.err = OK
          THEN OneEvent(last.events, last.id, escrows[last.id].status)
          ELSE last.events = <<>>

\* C20 (as stated): every successful create, fund, release, refund,
\* openDispute, resolveDispute and cancel emits exactly one event, which
\* carries the record id and identifies the new status; a failed one emits
\* none.
C20_OneEventEach ==
    /\ EventsOfCalls
    /\ last.fn = "resolveDispute" =>
          IF last.err = OK
          THEN OneEvent(last.events, last.id, escrows[last.id].status)
          ELSE last.events = <<>>

\* C20 (amended): the same for create, fund, release, refund, openDispute
\* and cancel; a successful resolveDispute emits two events, DisputeResolved
\* with the record id, the caller and the decision, then the EscrowRefunded
\* or EscrowReleased of the operation it delegates to, which identifies the
\* new status; a failed one emits none.
C20_Events ==
    /\ EventsOfCalls
    /\ last.fn = "resolveDispute" =>
          IF last.err = OK
          THEN /\ Len(last.events) = 2
               /\ last.events[1] = DisputeResolved(last.id, last.sender, last.arg)
               /\ OneEvent(<<last.events[2]>>, last.id, escrows[last.id].status)
               /\ last.events[2].name
                     = (IF last.arg THEN "EscrowRefunded" ELSE "EscrowReleased")
          ELSE last.events = <<>>
    /\ \A id \in Ids, sender \in Addr, b \in BOOLEAN :
          LET r == resolveDispute(World, sender, id, b) IN
          IF r.err = OK THEN r.events = <<DisputeResolved(id, sender, b)>>
                        ELSE r.events = <<>>

\* A dispute was resolved for the client: DisputeResolved, then
\* EscrowRefunded, were emitted.
C20_Witness ==
    /\ Ended("resolveDispute")
    /\ last.arg
    /\ Len(last.events) = 2
    /\ last.events[1].name = "DisputeResolved"
    /\ last.events[2].name = "EscrowRefunded"
    /\ escrows[last.id].status = "REFUNDED"

\* The product amount * fee of record e does not fit the unsigned integer.
FeeWraps(e) == e.amount * e.fee > MaxUint
\* floor(amount * fee / 10000), in unbounded integers.
ExactFee(e) == (e.amount * e.fee) \div 10000

\* The transfers `sent` of a release of record e are those of the exact split.
ExactSplit(e, sent) ==
    /\ ~FeeWraps(e)
    /\ sent[1].amt = e.amount - ExactFee(e)
    /\ Len(sent) >= 2 => sent[2].amt = ExactFee(e)

\* C21: the fee computation never wraps: on a FUNDED record whose
\* amount * fee exceeds the unsigned integer width, release fails (and so does
\* resolveDispute for the provider on such a record once DISPUTED), status and
\* balances unchanged; on every other record the fee is exactly
\* floor(amount * fee / 10000); and no payout, pending or completed, was
\* computed from a wrapped product.
C21_FeeNeverWraps ==
    /\ \A id \in Ids, sender \in Addr :
          Exists(id) =>
              LET e == escrows[id]
                  rel == releaseToProvider(World, sender, id)
                  res == resolveDispute(World, sender, id, FALSE)
              IN  /\ (e.status = "FUNDED" /\ FeeWraps(e)) =>
                        /\ Rejected(rel)
                        /\ rel.w.escrows[id].status = "FUNDED"
                        /\ rel.w.balances = balances
                  /\ (e.status = "DISPUTED" /\ FeeWraps(e)) =>
                        /\ Rejected(res)
                        /\ res.w.escrows[id].status = "DISPUTED"
                        /\ res.w.balances = balances
                  /\ ~FeeWraps(e) => feeAmountOf(e) = ExactFee(e)
                  /\ rel.err = OK => ExactSplit(e, <<rel.call>>)
                  /\ res.err = OK => ExactSplit(e, <<res.call>>)
    /\ \A i \in DOMAIN stack :
          stack[i].body = "release" => ExactSplit(escrows[stack[i].id], stack[i].sent)
    /\ (Ended("releaseToProvider") \/ (Ended("resolveDispute") /\ ~last.arg)) =>
          /\ ExactSplit(escrows[last.id], last.sent)
          /\ SentTotal(last.sent) = escrows[last.id].amount

\* A FUNDED record whose amount * fee does not fit: its client's release
\* panics, and the contract still holds the deposit.
C21_Witness ==
    \E id \in Ids :
        /\ stack = <<>>
        /\ escrows[id].status = "FUNDED"
        /\ FeeWraps(escrows[id])
        /\ releaseToProvider(World, escrows[id].client, id).err = "Panic(0x11)"
        /\ balances[escrows[id].token][ESCROW] = escrows[id].amount

\* The rows of the table under key (chainId, escrowId).
RowsOf(rows, chainId, escrowId) ==
    {i \in DOMAIN rows : rows[i].chainId = chainId /\ rows[i].escrowId = escrowId}

AtMostOnePerKey ==
    \A c \in ChainIds, id \in Ids : Cardinality(RowsOf(replica, c, id)) <= 1

\* Invocation i is at a created event, and the step takes it past the event.
CreatedPassed(i) ==
    /\ cycles[i].pc \in {"events", "getEscrow"}
    /\ cycles[i].queue # <<>>
    /\ Head(cycles[i].queue).event.name = "EscrowCreated"
    /\ cycles'[i].pc = "events"
    /\ cycles'[i].queue = Tail(cycles[i].queue)

\* C22: however often the creation event of a record is delivered, to one
\* poll cycle after another or to cycles that overlap, the table holds
\* exactly one row under the record's (chainId, escrowId) once the event has
\* been handled, the row the first delivery made; no reachable table holds
\* two rows under one key, and no row is ever removed or replaced.
C22_Idempotent ==
    /\ []AtMostOnePerKey
    /\ [][ /\ Len(replica') >= Len(replica)
           /\ \A n \in DOMAIN replica :
                 /\ replica'[n].chainId = replica[n].chainId
                 /\ replica'[n].escrowId = replica[n].escrowId
                 /\ replica'[n].blockNumber = replica[n].blockNumber
           /\ \A i \in DOMAIN cycles :
                 CreatedPassed(i) =>
                    LET l == Head(cycles[i].queue)
                        had == RowsOf(replica, cycles[i].chainId, l.event.escrowId)
                    IN  /\ Cardinality(RowsOf(replica', cycles[i].chainId, l.event.escrowId)) = 1
                        /\ had # {} => replica' = replica
         ]_vars

\* A poll cycle has been handed again, and has passed, a creation event
\* that an earlier cycle had applied: its window starts at the block of the
\* event, which the cursor reached when that earlier cycle ended.  The table
\* holds one row for the record.
C22_Witness ==
    \E i \in DOMAIN cycles, n \in DOMAIN logs :
        /\ cycles[i].pc = "events"
        /\ logs[n].event.name = "EscrowCreated"
        /\ cycles[i].fromBlock = logs[n].blockNumber
        /\ startBlock < logs[n].blockNumber
        /\ \A k \in DOMAIN cycles[i].queue : cycles[i].queue[k].event.name # "EscrowCreated"
        /\ Cardinality(RowsOf(replica, cycles[i].chainId, logs[n].event.escrowId)) = 1

\* The backend while every read succeeds and the process stays up: the timer
\* keeps firing and every invocation of syncBlockchainEvents runs on.
NextSync ==
    \/ MineCreate
    \/ MineFund
    \/ MineRelease
    \/ MineRefund
    \/ MineOpenDispute
    \/ MineResolve
    \/ MineCancel
    \/ OnModuleInit
    \/ CronTick
    \/ \E i \in DOMAIN cycles : GetBlockNumber(i)
    \/ \E i \in DOMAIN cycles : HandleEscrowCreated(i)
    \/ \E i \in DOMAIN cycles : SaveEscrowCreated(i)
    \/ \E i \in DOMAIN cycles : HandleEscrowFunded(i)
    \/ \E i \in DOMAIN cycles : Advance(i)

SpecSync ==
    /\ InitIndexer
    /\ [][NextSync]_vars
    /\ WF_vars(OnModuleInit)
    /\ WF_vars(CronTick)
    /\ WF_vars(\E i \in DOMAIN cycles : GetBlockNumber(i))
    /\ WF_vars(\E i \in DOMAIN cycles : HandleEscrowCreated(i))
    /\ WF_vars(\E i \in DOMAIN cycles : SaveEscrowCreated(i))
    /\ WF_vars(\E i \in DOMAIN cycles : HandleEscrowFunded(i))
    /\ WF_vars(\E i \in DOMAIN cycles : Advance(i))

\* Every row of the table carries the status its record has in the contract.
StatusInSync ==
    \A n \in DOMAIN replica :
        replica[n].status = StatusCode(escrows[replica[n].escrowId].status)

\* C23: once the contract stops changing (it does in every behaviour: a
\* record's lifecycle is finite), poll cycles that keep running without a
\* failed read bring the status of every row to the status of its record,
\* and it stays there.
C23_EventuallyInSync == <>[]StatusInSync

\* Invocation i is at an event of that name, and the step takes it past the
\* event without throwing.
Passed(i, name) ==
    /\ cycles[i].pc = "events"
    /\ cycles[i].queue # <<>>
    /\ Head(cycles[i].queue).event.name = name
    /\ cycles'[i].pc = "events"
    /\ cycles'[i].queue = Tail(cycles[i].queue)

\* Row `row` carries what the contract holds for its record in `w`.
MatchesLedger(row, w) ==
    LET e == getEscrow(w, row.escrowId) IN
    /\ row.client = e.client
    /\ row.provider = e.provider
    /\ row.arbitrator = e.arbitrator
    /\ row.token = e.token
    /\ row.amount = e.amount
    /\ row.fee = e.fee
    /\ row.status = e.status

\* C24: when a poll cycle handles a transition event (here EscrowFunded, the
\* one transition the indexer reads) for a (chainId, escrowId) that has no
\* row, it neither fails nor skips the event: after the step the table holds
\* a row for the key that carries the contract's record.
C24_Backfill ==
    [][ \A i \in DOMAIN cycles :
           (/\ Passed(i, "EscrowFunded")
            /\ RowsOf(replica, cycles[i].chainId, Head(cycles[i].queue).event.escrowId) = {})
           => LET l == Head(cycles[i].queue)
                  rows == RowsOf(replica', cycles[i].chainId, l.event.escrowId)
              IN  /\ rows # {}
                  /\ \A n \in rows : MatchesLedger(replica'[n], World)
      ]_vars

\* The log entry l has been applied to the table.
Applied(l, c) ==
    LET rows == RowsOf(replica, c, l.event.escrowId) IN
    CASE l.event.name = "EscrowCreated" -> rows # {}
      [] l.event.name = "EscrowFunded"  -> \A n \in rows : replica[n].status = 1
      [] OTHER -> TRUE

\* Every event the indexer reads that lies after START_BLOCK and not after
\* the cursor has been applied.
CursorCovers ==
    \A c \in ChainIds, n \in DOMAIN logs :
        (Booted /\ startBlock < logs[n].blockNumber /\ logs[n].blockNumber <= fromBlockOf(c))
            => Applied(logs[n], c)

\* Invocation i ends in this step because it threw.
Throws(i) == Running(i) /\ cycles'[i] = Thrown

C26_CursorMonotone ==
    [][ \A c \in ChainIds : fromBlockOf(c)' >= fromBlockOf(c) ]_vars

\* The invocations of syncBlockchainEvents that are running for chain c.
RunningFor(c) == {i \in DOMAIN cycles : Running(i) /\ cycles[i].chainId = c}

\* C27: the poll cycles of a chain are serialized: at no time are two
\* invocations of syncBlockchainEvents running for the same chain.
C27_Serialized ==
    \A c \in ChainIds : Cardinality(RunningFor(c)) <= 1

\* The notification of a transition of the record of row `row`.
Notice(type, row) == [type |-> type, escrowId |-> row.escrowId]

\* The store after the client and the provider of `row` were each notified
\* once.
BothNotified(type, row) ==
    sendNotification(sendNotification(notifications, row.client, Notice(type, row)),
                     row.provider, Notice(type, row))

\* C28: each time a poll cycle has applied an event (a row inserted for
\* EscrowCreated, a row updated for EscrowFunded) the notifier is invoked
\* once for the record's client and once for its provider, in that step and
\* in no other.
C28_Notified ==
    [][ /\ \A i \in DOMAIN cycles :
              /\ (Passed(i, "EscrowFunded")
                    /\ RowsOf(replica, cycles[i].chainId,
                              Head(cycles[i].queue).event.escrowId) # {})
                    => \E n \in DOMAIN replica' :
                          notifications' = BothNotified("ESCROW_FUNDED", replica'[n])
              /\ (CreatedPassed(i) /\ Len(replica') > Len(replica))
                    => notifications' = BothNotified("ESCROW_CREATED", replica'[Len(replica')])
      ]_vars

\* Address a is an arbitrator of the record of escrow row `row`: the one the
\* record designates, or a member of the contract's registry.
ArbitratorOf(a, row) == a = row.arbitrator \/ authorizedArbitrators[a]

\* C29: DisputeService.resolve is for arbitrators only: called by an
\* authenticated address that is no arbitrator of the disputed record it is
\* rejected and the dispute stays OPEN; every RESOLVED dispute was resolved
\* by an arbitrator of its record.
C29_ArbitratorOnly ==
    /\ \A id \in DOMAIN disputes, resolver \in Addr, inFavorOfClient \in BOOLEAN :
          (disputes[id].status = "OPEN"
             /\ ~ArbitratorOf(resolver, replica[disputes[id].escrowId])) =>
              LET r == DisputeService_resolve(disputes, id, resolver, inFavorOfClient) IN
              /\ r.err # OK
              /\ r.rows = disputes
    /\ \A id \in DOMAIN disputes :
          disputes[id].status = "RESOLVED"
              => ArbitratorOf(disputes[id].resolver, replica[disputes[id].escrowId])

\* C30: while fundEscrow waits for its token pull to return, the record is
\* CREATED and stays so: every call on the record made from inside the pull,
\* the client's cancelEscrow included, fails and changes nothing, so that the
\* outer call never sets FUNDED on a record that was cancelled meanwhile.
C30_FundPullGuarded ==
    \A i \in DOMAIN stack :
        (stack[i].body = "fund" /\ stack[i].pc = "pull") =>
            /\ escrows[stack[i].id].status = "CREATED"
            /\ AllRejected(stack[i].id)

\* C31: when a poll cycle handles a transition event (EscrowFunded, the one
\* transition the indexer reads) for a record that has a row, the status the
\* row carries after the step is the status the contract holds for the record
\* at that moment, read from the contract, whatever the type of the event.
C31_CanonicalStatus ==
    [][ \A i \in DOMAIN cycles :
           (/\ Passed(i, "EscrowFunded")
            /\ RowsOf(replica, cycles[i].chainId, Head(cycles[i].queue).event.escrowId) # {})
           => LET l == Head(cycles[i].queue) IN
              \A n \in RowsOf(replica', cycles[i].chainId, l.event.escrowId) :
                  replica'[n].status = getEscrow(World, l.event.escrowId).status
      ]_vars

\* ------------------------------------------- one window over several records

\* The contract with room for MaxRecords records, so that the events of one
\* window belong to different records.
MaxRecords == 2
RecordIds == 0 .. (MaxRecords - 1)
\* What the clients of the records send: native records of one amount.
RecordInputs == {in \in CreateInputs : in.token = ZERO /\ in.amount = 100 /\ in.deadline = 0}

InitOrder ==
    /\ escrows = [i \in RecordIds |-> EscrowData]
    /\ escrowIdCounter = 0
    /\ authorizedArbitrators = [a \in Addr \cup {ZERO} |-> FALSE]
    /\ defaultFee = InitialDefaultFee
    /\ feeCollector = OWNER
    /\ collectedFees = [t \in Assets |-> 0]
    /\ entered = FALSE
    /\ balances = [t \in Assets |-> [h \in Holders |-> IF h = ESCROW THEN 0 ELSE InitBalance]]
    /\ allowance = [a \in Addr |-> 0]
    /\ stack = <<>>
    /\ last = NoLast
    /\ Constructed
    /\ startBlock = 0

MineCreateMore ==
    \E in \in RecordInputs, timestamp \in Timestamps :
        /\ escrowIdCounter < MaxRecords
        /\ Mine(createEscrow(World, in.sender, in.provider, in.arbitrator, in.token, in.amount,
                             in.deadline, timestamp), escrowIdCounter)

MineFundAny ==
    \E sender \in Addr, id \in RecordIds, value \in Values :
        /\ id < escrowIdCounter
        /\ balances[ZERO][sender] >= value
        /\ Mine(fundEscrow(World, sender, id, value), id)

\* The backend from its start through its poll cycles, over a chain on which
\* records are created and funded.
NextOrder ==
    \/ MineCreateMore
    \/ MineFundAny
    \/ OnModuleInit
    \/ CronTick
    \/ \E i \in DOMAIN cycles : GetBlockNumber(i)
    \/ \E i \in DOMAIN cycles : HandleEscrowCreated(i)
    \/ \E i \in DOMAIN cycles : SaveEscrowCreated(i)
    \/ \E i \in DOMAIN cycles : HandleEscrowFunded(i)
    \/ \E i \in DOMAIN cycles : Advance(i)

SpecOrder == InitOrder /\ [][NextOrder]_vars

\* The place of a log entry on the ledger: its position in the event log,
\* which ascends by (height, log index).
LogIndex(l) == CHOOSE n \in DOMAIN logs : logs[n] = l

\* The events a poll cycle has still to apply come in ledger order.
InLedgerOrder(queue) ==
    \A k, m \in DOMAIN queue : k < m => LogIndex(queue[k]) < LogIndex(queue[m])

\* Of two events of one record that a poll cycle has still to apply, the
\* earlier one on the ledger comes first.
RecordInLedgerOrder(queue) ==
    \A k, m \in DOMAIN queue :
        (k < m /\ queue[k].event.escrowId = queue[m].event.escrowId)
            => LogIndex(queue[k]) < LogIndex(queue[m])

\* C32: a poll cycle applies the events of its window in ledger order,
\* ascending by (height, log index) whatever their types: at every moment the
\* events it has still to apply, which it takes from the front, lie on the
\* ledger in the order in which it holds them.
C32_LedgerOrder ==
    \A i \in DOMAIN cycles :
        cycles[i].pc \in {"events", "getEscrow"} => InLedgerOrder(cycles[i].queue)

\* The part of C32 that is about one record.
C32_RecordOrder ==
    \A i \in DOMAIN cycles :
        cycles[i].pc \in {"events", "getEscrow"} => RecordInLedgerOrder(cycles[i].queue)

\* Invocation i reads the height of the chain in this step and the read
\* succeeds.
ReadsHeight(i) ==
    /\ cycles[i].pc = "getBlockNumber"
    /\ cycles'[i] # cycles[i]
    /\ ~Throws(i)
    /\ Booted'

\* The entries of the event log that the indexer reads and that lie in the
\* blocks from .. to, both included.
ReadEventsIn(from, to) ==
    {n \in DOMAIN logs : /\ logs[n].event.name \in {"EscrowCreated", "EscrowFunded"}
                         /\ logs[n].blockNumber >= from
                         /\ logs[n].blockNumber <= to}

\* C33: a poll cycle that finds the cursor of its chain at height `cursor`
\* and the chain at height `to` does nothing when cursor + 1 > to, and
\* otherwise fetches the events of the blocks cursor + 1 .. to and no others:
\* no event of a block at or below the cursor is fetched again.
C33_Window ==
    [][ \A i \in DOMAIN cycles :
           ReadsHeight(i) =>
              LET cursor == fromBlockOf(cycles[i].chainId)
                  to == blockNumber
                  fetched == {LogIndex(cycles'[i].queue[k]) : k \in DOMAIN cycles'[i].queue}
              IN  IF cursor + 1 > to
                  THEN cycles'[i] = Idle
                  ELSE /\ cycles'[i].pc = "events"
                       /\ fetched = ReadEventsIn(cursor + 1, to)
      ]_vars

\* -------------------------------------------------- a head that is replaced

\* A successful transaction makes the head block, as in Mine; the log entries
\* of the block also keep the state the block was built on, to which the
\* contract returns when the block is dropped.
MineHead(r0, id) ==
    LET r == Mined(r0, World, id) IN
    /\ stack = <<>>
    /\ blockNumber < MaxBlock
    /\ r.err = OK
    /\ Install(r.w)
    /\ blockNumber' = blockNumber + 1
    /\ logs' = logs \o [i \in 1 .. Len(r.events) |->
                            [blockNumber |-> blockNumber + 1, event |-> r.events[i],
                             parent |-> World]]
    /\ UNCHANGED <<stack, last, startBlock, auth, lastSyncedBlocks, cycles, replica,
                   notifications, disputes>>

MineHeadCreate ==
    \E in \in RecordInputs, timestamp \in Timestamps :
        /\ escrowIdCounter < MaxEscrows
        /\ MineHead(createEscrow(World, in.sender, in.provider, in.arbitrator, in.token,
                                 in.amount, in.deadline, timestamp), escrowIdCounter)

MineHeadFund ==
    \E sender \in Addr, id \in Ids, value \in Values :
        /\ balances[ZERO][sender] >= value
        /\ MineHead(fundEscrow(World, sender, id, value), id)

\* A reorganisation of depth one: the head block is replaced by a block of
\* the same height that does not carry its transaction.  The blocks below the
\* head have a block built on them and stay.
Reorg ==
    /\ stack = <<>>
    /\ \E n \in DOMAIN logs :
          /\ logs[n].blockNumber = blockNumber
          /\ \A m \in DOMAIN logs : logs[m].blockNumber = blockNumber => n <= m
          /\ Install(logs[n].parent)
    /\ logs' = SelectSeq(logs, LAMBDA l : l.blockNumber < blockNumber)
    /\ UNCHANGED <<stack, last, blockNumber, startBlock, auth, lastSyncedBlocks, cycles, replica,
                   notifications, disputes>>

\* The backend and its poll cycles over a chain whose head may be replaced.
NextReorg ==
    \/ MineHeadCreate
    \/ MineHeadFund
    \/ Reorg
    \/ OnModuleInit
    \/ CronTick
    \/ \E i \in DOMAIN cycles : GetBlockNumber(i)
    \/ \E i \in DOMAIN cycles : HandleEscrowCreated(i)
    \/ \E i \in DOMAIN cycles : SaveEscrowCreated(i)
    \/ \E i \in DOMAIN cycles : HandleEscrowFunded(i)
    \/ \E i \in DOMAIN cycles : Advance(i)

SpecReorg == InitIndexer /\ [][NextReorg]_vars

\* The highest block that has a block built on it: under a confirmation
\* depth of one it is final.
ConfirmedHeight == blockNumber - 1

\* Every row was made from a creation event that the ledger holds, and a
\* status other than CREATED is one that an event of the ledger announces
\* for the record.
ReplicaOnLedger ==
    \A n \in DOMAIN replica :
        /\ \E k \in DOMAIN logs :
              /\ logs[k].event.name = "EscrowCreated"
              /\ logs[k].event.escrowId = replica[n].escrowId
              /\ logs[k].blockNumber = replica[n].blockNumber
              /\ logs[k].event.client = replica[n].client
              /\ logs[k].event.provider = replica[n].provider
              /\ logs[k].event.amount = replica[n].amount
        /\ replica[n].status # 0 =>
              \E k \in DOMAIN logs :
                  /\ logs[k].event.escrowId = replica[n].escrowId
                  /\ StatusOf(logs[k].event.name) # "none"
                  /\ StatusCode(StatusOf(logs[k].event.name)) = replica[n].status

\* C34: the upper bound of the window of every poll cycle is a confirmed
\* height, not the head of the chain; hence the table never holds a record or
\* a status made from an event that a reorganisation has removed from the
\* ledger.
C34_Confirmed ==
    /\ [][ \A i \in DOMAIN cycles :
              (ReadsHeight(i) /\ cycles'[i].pc = "events")
                  => cycles'[i].currentBlock <= ConfirmedHeight ]_vars
    /\ []ReplicaOnLedger

\* ------------------------------------------------------------ EscrowService

\* EscrowService.syncEscrowStatus(id) over the table rows: the row gets the
\* status the contract holds in `w` for its record, if it differs.
syncEscrowStatus(rows, id, w) ==
    IF id \notin DOMAIN rows
    THEN [err |-> "NotFoundException", rows |-> rows]
    ELSE LET onChainData == getEscrow(w, rows[id].escrowId) IN
         [err |-> OK,
          rows |-> IF rows[id].status # onChainData.status
                   THEN [rows EXCEPT ![id].status = onChainData.status]
                   ELSE rows]

\* POST /escrows/:id/sync by an authenticated address.
SyncEscrowStatus ==
    \E id \in EscrowUuids :
        LET r == syncEscrowStatus(replica, id, World) IN
        /\ stack = <<>>
        /\ r.err = OK
        /\ replica' = r.rows
        /\ UNCHANGED <<chain, stack, last, blockNumber, logs, startBlock, auth, lastSyncedBlocks,
                       cycles, notifications, disputes>>

\* The poll cycles of the indexer and the manual sync, over the chain.
NextManual ==
    \/ MineCreate
    \/ MineFund
    \/ MineRelease
    \/ MineRefund
    \/ MineOpenDispute
    \/ MineResolve
    \/ MineCancel
    \/ OnModuleInit
    \/ CronTick
    \/ \E i \in DOMAIN cycles : GetBlockNumber(i)
    \/ \E i \in DOMAIN cycles : HandleEscrowCreated(i)
    \/ \E i \in DOMAIN cycles : SaveEscrowCreated(i)
    \/ \E i \in DOMAIN cycles : HandleEscrowFunded(i)
    \/ \E i \in DOMAIN cycles : Advance(i)
    \/ SyncEscrowStatus

SpecManual == InitIndexer /\ [][NextManual]_vars

\* The codes of DISPUTED, RELEASED, REFUNDED and CANCELLED.
PastFunded == {StatusCode(s) : s \in {"DISPUTED", "RELEASED", "REFUNDED", "CANCELLED"}}

\* C35: however poll cycles and manual syncs interleave, the status of a row
\* never moves backwards: a row that shows DISPUTED, RELEASED, REFUNDED or
\* CANCELLED does not show FUNDED or CREATED after any later step.
C35_NoRegress ==
    [][ \A n \in DOMAIN replica :
            replica[n].status \in PastFunded => replica'[n].status \in PastFunded ]_vars

\* ------------------------------------- the contract without emergencyWithdraw

\* Every call of the contract but emergencyWithdraw.
NextNoWithdraw ==
    \/ CreateEscrow
    \/ FundEscrow
    \/ ReleaseToProvider
    \/ RefundToClient
    \/ OpenDispute
    \/ ResolveDispute
    \/ CancelEscrow
    \/ AddArbitrator
    \/ RemoveArbitrator
    \/ SetFeeCollector
    \/ SetDefaultFee
    \/ Approve
    \/ CalleeReturns
    \/ CalleeFails

SpecNoWithdraw == Init /\ [][NextNoWithdraw]_vars

\* The contract holds of asset t exactly what the FUNDED and DISPUTED
\* records of t have deposited.
ExactlyBacked(t) == balances[t][ESCROW] = Locked(World, t)

IndependentArbitrator(id) ==
    /\ escrows[id].arbitrator # escrows[id].client
    /\ escrows[id].arbitrator # escrows[id].provider

\* C37: no record designates its own client or its own provider as its
\* arbitrator; hence a client outside the registry cannot have a record it
\* funded refunded by a call of its own, and a provider outside the registry
\* cannot release a record to itself.
C37_IndependentArbitrator ==
    \A id \in Ids :
        Exists(id) =>
            /\ IndependentArbitrator(id)
            /\ ~authorizedArbitrators[escrows[id].client]
                  => refundToClient(World, escrows[id].client, id).err # OK
            /\ ~authorizedArbitrators[escrows[id].provider]
                  => releaseToProvider(World, escrows[id].provider, id).err # OK

\* The part of C37 about what the parties can do, without the part about
\* what a record designates.
C37_NoSelfService ==
    \A id \in Ids :
        Exists(id) =>
            /\ ~authorizedArbitrators[escrows[id].client]
                  => refundToClient(World, escrows[id].client, id).err # OK
            /\ ~authorizedArbitrators[escrows[id].provider]
                  => releaseToProvider(World, escrows[id].provider, id).err # OK

\* ------------------------------------------ the lifecycle of several records

MineCreateAny ==
    \E in \in CreateInputs, timestamp \in Timestamps :
        /\ escrowIdCounter < MaxRecords
        /\ Mine(createEscrow(World, in.sender, in.provider, in.arbitrator, in.token, in.amount,
                             in.deadline, timestamp), escrowIdCounter)

MineReleaseAny ==
    \E sender \in Addr, id \in RecordIds : Mine(releaseToProvider(World, sender, id), id)

MineRefundAny ==
    \E sender \in Addr, id \in RecordIds : Mine(refundToClient(World, sender, id), id)

MineOpenDisputeAny ==
    \E sender \in Addr, id \in RecordIds : Mine(openDispute(World, sender, id), id)

MineResolveAny ==
    \E sender \in Addr, id \in RecordIds, inFavorOfClient \in BOOLEAN :
        Mine(resolveDispute(World, sender, id, inFavorOfClient), id)

MineCancelAny ==
    \E sender \in Addr, id \in RecordIds : Mine(cancelEscrow(World, sender, id), id)

\* The transactions that make records and take them through their lifecycle.
NextRecords ==
    \/ MineCreateAny
    \/ MineFundAny
    \/ Approve
    \/ MineReleaseAny
    \/ MineRefundAny
    \/ MineOpenDisputeAny
    \/ MineResolveAny
    \/ MineCancelAny

SpecRecords == InitOrder /\ [][NextRecords]_vars

\* Between the states v and w of the contract nothing but the status of
\* record id has changed among the records, the default fee, the fee
\* collector and the registry of arbitrators.
OnlyStatusOf(id, v, w) ==
    /\ w.escrows = [v.escrows EXCEPT ![id].status = w.escrows[id].status]
    /\ w.escrowIdCounter = v.escrowIdCounter
    /\ w.defaultFee = v.defaultFee
    /\ w.feeCollector = v.feeCollector
    /\ w.authorizedArbitrators = v.authorizedArbitrators

\* What the lifecycle calls on record id do in the present state, each run
\* to its end.
LifecycleCalls(id) ==
    {Mined(fundEscrow(World, sender, id, value), World, id) :
        sender \in Addr, value \in Values}
    \cup {Mined(releaseToProvider(World, sender, id), World, id) : sender \in Addr}
    \cup {Mined(refundToClient(World, sender, id), World, id) : sender \in Addr}
    \cup {Mined(openDispute(World, sender, id), World, id) : sender \in Addr}
    \cup {Mined(resolveDispute(World, sender, id, inFavorOfClient), World, id) :
        sender \in Addr, inFavorOfClient \in BOOLEAN}
    \cup {Mined(cancelEscrow(World, sender, id), World, id) : sender \in Addr}

\* The names of the events of the lifecycle calls.
LifecycleEvents ==
    {"EscrowFunded", "EscrowReleased", "EscrowRefunded", "DisputeOpened", "DisputeResolved",
     "EscrowCancelled"}

MaxNonces == 3
MaxLogins == 2
\* The wallets that log in.
Wallets == {"c", "p"}
\* 5 minutes, in milliseconds.
NonceTtl == 5 * 60 * 1000
\* The clock is read every five minutes, three times at most.
MaxTime == 3 * NonceTtl

\* The message of getNonce, which carries the nonce.
Message(nonce) == [nonce |-> nonce]
\* The signature of `message` by the wallet of `signer`.
Signature(signer, message) == [signer |-> signer, message |-> message]

\* ethers.verifyMessage(message, signature): the address whose wallet made the
\* signature, if it was made over this message; some address of no wallet
\* otherwise.
verifyMessage(message, signature) ==
    IF signature.message = message THEN signature.signer ELSE "nobody"

\* cleanupExpiredNonces at time t
cleanupExpiredNonces(m, t) ==
    [a \in DOMAIN m |-> IF m[a] # NoNonce /\ t > m[a].expiresAt THEN NoNonce ELSE m[a]]

\* generateNonce(address) at time t, `nonce` being the random bytes drawn.
generateNonce(m, address, nonce, t) ==
    cleanupExpiredNonces([m EXCEPT ![address] = [nonce |-> nonce, expiresAt |-> t + NonceTtl]], t)

\* verifySignature(address, signature, message) at time t
verifySignature(m, address, signature, message, t) ==
    IF m[address] = NoNonce
    THEN [err |-> "Nonce not found or expired", nonces |-> m]
    ELSE IF t > m[address].expiresAt
    THEN [err |-> "Nonce expired", nonces |-> [m EXCEPT ![address] = NoNonce]]
    ELSE IF verifyMessage(message, signature) # address
    THEN [err |-> "Signature verification failed", nonces |-> m]
    ELSE [err |-> OK, nonces |-> [m EXCEPT ![address] = NoNonce]]

\* GET /auth/nonce?address=..., by anyone.
GenerateNonce ==
    \E address \in Wallets :
        /\ issued < MaxNonces
        /\ issued' = issued + 1
        /\ nonces' = generateNonce(nonces, address, issued + 1, now)
        /\ UNCHANGED <<chain, stack, last, blockNumber, logs, startBlock, lastSyncedBlocks,
                       cycles, replica, notifications, disputes, now, signatures, logins>>

\* A wallet signs the message it got with its nonce.
Sign ==
    \E address \in Wallets :
        /\ nonces[address] # NoNonce
        /\ signatures' = signatures \cup {Signature(address, Message(nonces[address].nonce))}
        /\ UNCHANGED <<chain, stack, last, blockNumber, logs, startBlock, lastSyncedBlocks,
                       cycles, replica, notifications, disputes, nonces, now, issued, logins>>

\* POST /auth/verify, by anyone who holds a signature and a message.
VerifySignature ==
    \E address \in Wallets, signature \in signatures, other \in signatures :
        LET message == other.message
            r == verifySignature(nonces, address, signature, message, now)
        IN  /\ Len(logins) < MaxLogins
            /\ nonces' = r.nonces
            /\ logins' = IF r.err = OK
                         THEN Append(logins, [address |-> address, message |-> message,
                                              signature |-> signature])
                         ELSE logins
            /\ UNCHANGED <<chain, stack, last, blockNumber, logs, startBlock, lastSyncedBlocks,
                           cycles, replica, notifications, disputes, now, issued, signatures>>

\* Five minutes pass.
Tick ==
    /\ now + NonceTtl <= MaxTime
    /\ now' = now + NonceTtl
    /\ UNCHANGED <<chain, stack, last, blockNumber, logs, startBlock, lastSyncedBlocks,
                   cycles, replica, notifications, disputes, nonces, issued, signatures,
                   logins>>

NextAuth ==
    \/ GenerateNonce
    \/ Sign
    \/ VerifySignature
    \/ Tick

SpecAuth == Init /\ [][NextAuth]_vars

\* C39: a pair of message and signature logs an address in at most once: no
\* two calls of verifySignature that returned tokens were given the same pair,
\* whatever nonces were generated in between; and a call returns tokens only
\* when the message carries the nonce that is stored for the address and has
\* not expired.
C39_SingleUse ==
    /\ [](\A i, j \in DOMAIN logins :
             i < j => ~(/\ logins[i].address = logins[j].address
                        /\ logins[i].message = logins[j].message
                        /\ logins[i].signature = logins[j].signature))
    /\ [][ Len(logins') > Len(logins) =>
              LET l == logins'[Len(logins')] IN
              /\ nonces[l.address] # NoNonce
              /\ now <= nonces[l.address].expiresAt
              /\ l.message.nonce = nonces[l.address].nonce ]_vars

\* The part of C39 about a pair that is used again.
C39_NoReplay ==
    \A i, j \in DOMAIN logins :
        i < j => ~(/\ logins[i].address = logins[j].address
                   /\ logins[i].message = logins[j].message
                   /\ logins[i].signature = logins[j].signature)

====
